---- MODULE Spec2Model ----
(***************************************************************************)
(* Verification model of the cooked-model (.smodel) loader of Stratosphere *)
(* (Engine/src/SModelLoader.cpp).  LoadSModelFile is modelled as a state   *)
(* machine with one step per gate of the function; the input file is drawn *)
(* in the initial state from a cooked base file with up to two fields      *)
(* changed.  (SpecLoader)                                                  *)
(*                                                                         *)
(* The string lookup of a loaded view (SpecStrings) and the ComponentMask  *)
(* and ComponentRegistry classes of ECS/Components.h (SpecMask, SpecMatch, *)
(* SpecRegistry) are modelled with one action per member function; `call`  *)
(* holds the most recent call and what it returned.                        *)
(*                                                                         *)
(* Integer widths: TLC integers are 32-bit, so uint32_t and uint64_t are   *)
(* modelled with U32Bits and 2*U32Bits bits.  Every sum and product the    *)
(* code takes in a fixed width is reduced modulo that width here.          *)
(***************************************************************************)
EXTENDS Integers, Sequences, FiniteSets, TLC

VARIABLES
    file,          \* the file at `path`: open/read behaviour, byte count, decoded contents
    pc,            \* position inside LoadSModelFile
    outView,       \* the caller's SModelFileView
    outError,      \* the caller's error string
    ret,           \* "none" while running, then "true" / "false"
    evaluated,     \* the checks evaluated so far, in order
    ni,            \* loop index of the node validation loop
    readPastTable, \* TRUE once nodePrimitiveIndices was read at an index >= nodePrimitiveIndexCount
    strView,       \* an SModelFileView whose string table is looked up (header, stringTable, bytes)
    masks,         \* the ComponentMask objects S, R and E: m_words of each
    present,       \* per mask, the IDs whose most recent set/clear was a set
    m_nameToId,    \* ComponentRegistry::m_nameToId
    m_idToName,    \* ComponentRegistry::m_idToName
    seen,          \* the names passed to registerComponent/ensureId, in first-seen order
    call,          \* the most recent call on a view, mask or registry, with what it returned
    modelAsset,    \* the ModelAsset whose node graph VerifyLoadSModel validates
    vpc,           \* position inside the node-graph part of VerifyLoadSModel
    vi,            \* loop index i of the loop VerifyLoadSModel is in
    dfsStack,      \* the active calls of dfs, innermost last: [idx, k]
    visited,       \* VerifyLoadSModel: visited
    expectedGlobals, \* VerifyLoadSModel: expectedGlobals
    nodeOk,        \* VerifyLoadSModel: nodeOk
    computed,      \* per node, how often expectedGlobals[idx] was assigned by dfs
    meshFile,      \* the file LoadSMeshV0FromFile opens: existence, byte count, header
    scene,         \* the aiScene node tree the cooker emits
    cooked,        \* what the cooker produced: tables, header, the sections written
    strings,       \* the cooker's StringTable: data
    added,         \* the calls of StringTable::add so far: [s, off]
    m_assets,      \* RenderSystem::m_assets is non-null
    m_renderer,    \* RenderSystem::m_renderer is non-null
    m_camera,      \* RenderSystem::m_camera is non-null
    m_passes,      \* RenderSystem::m_passes: key -> pass
    registered,    \* the keys of the passes given to Renderer::registerPass, in order
    lastUpdate     \* what the most recent RenderSystem::update did

\* The node-graph validation of VerifyLoadSModel
verifyVars == <<modelAsset, vpc, vi, dfsStack, visited, expectedGlobals, nodeOk, computed>>

\* LoadSMeshV0FromFile
meshVars == <<meshFile>>

\* GltfToSmodel: the emitted node tables and the file layout
cookVars == <<scene, cooked>>

\* GltfToSmodel: StringTable
tableVars == <<strings, added>>

\* RenderSystem
renderVars == <<m_assets, m_renderer, m_camera, m_passes, registered, lastUpdate>>

\* The state of the sample verifier, the mesh loader, the cooker and the
\* render system
otherVars == <<verifyVars, meshFile, scene, cooked, strings, added,
               m_assets, m_renderer, m_camera, m_passes, registered, lastUpdate>>

\* The state outside LoadSModelFile
nonLoaderVars == <<strView, masks, present, m_nameToId, m_idToName, seen, call, otherVars>>

vars == <<file, pc, outView, outError, ret, evaluated, ni, readPastTable,
          strView, masks, present, m_nameToId, m_idToName, seen, call, otherVars>>

-----------------------------------------------------------------------------
\* Integer widths

U32Bits == 12

U32Mod == 2 ^ U32Bits

U64Mod == 2 ^ (2 * U32Bits)

U32_MAX == U32Mod - 1

U64_MAX == U64Mod - 1

\* Format constants

SMODEL_MAGIC == 1146047827

SMODEL_VERSION_MAJOR == 2

SMODEL_VERSION_MINOR == 1

\* Packed record sizes

HeaderSize == 116

MeshRecSize == 72

PrimRecSize == 20

MatRecSize == 100

TexRecSize == 52

NodeRecSize == 88

IndexSize == 4

VertexStride == 48

Path == "model.smodel"

Min(S) == CHOOSE x \in S : \A y \in S : x <= y

-----------------------------------------------------------------------------
\* The caller's view object

Null == -1

FreshView ==
    [fileBytes |-> 0, header |-> Null, meshes |-> Null, primitives |-> Null,
     materials |-> Null, textures |-> Null, nodes |-> Null,
     nodePrimitiveIndices |-> Null, stringTable |-> Null, blob |-> Null]

\* A view left over from an earlier successful load into the same object
StaleView ==
    [fileBytes |-> 2 * HeaderSize, header |-> 0, meshes |-> HeaderSize,
     primitives |-> HeaderSize, materials |-> HeaderSize, textures |-> HeaderSize,
     nodes |-> Null, nodePrimitiveIndices |-> Null,
     stringTable |-> HeaderSize, blob |-> HeaderSize]

-----------------------------------------------------------------------------
\* A cooked file: two meshes, one texture, two primitives, one material and
\* a root node with two leaf children, laid out as the cooker lays it out.

BaseMeshes ==
    << [vertexCount |-> 3, vertexStride |-> VertexStride,
        vertexDataOffset |-> 0, vertexDataSize |-> 3 * VertexStride,
        indexDataOffset |-> 144, indexDataSize |-> 12],
       [vertexCount |-> 4, vertexStride |-> VertexStride,
        vertexDataOffset |-> 160, vertexDataSize |-> 4 * VertexStride,
        indexDataOffset |-> 352, indexDataSize |-> 24] >>

BaseTextures == << [imageDataOffset |-> 376, imageDataSize |-> 8] >>

BaseBlobSize == 384

BasePrimitives ==
    << [meshIndex |-> 0, materialIndex |-> 0],
       [meshIndex |-> 1, materialIndex |-> 0] >>

BaseMaterials ==
    << [baseColorTexture |-> 0, normalTexture |-> -1,
        metallicRoughnessTexture |-> -1, occlusionTexture |-> -1,
        emissiveTexture |-> -1] >>

BaseNodes ==
    << [parentIndex |-> U32_MAX, firstChildIndex |-> 0, childCount |-> 2,
        firstPrimitiveIndex |-> 0, primitiveCount |-> 0],
       [parentIndex |-> 0, firstChildIndex |-> U32_MAX, childCount |-> 0,
        firstPrimitiveIndex |-> 0, primitiveCount |-> 1],
       [parentIndex |-> 0, firstChildIndex |-> U32_MAX, childCount |-> 0,
        firstPrimitiveIndex |-> 1, primitiveCount |-> 1] >>

BaseNodePrimitiveIndices == << 0, 1 >>

BaseNodeChildIndices == << 1, 2 >>

BaseStringTableSize == 16

\* The header the cooker computes for the tables above
CookHeader ==
    LET meshesOffset == HeaderSize
        primitivesOffset == meshesOffset + Len(BaseMeshes) * MeshRecSize
        materialsOffset == primitivesOffset + Len(BasePrimitives) * PrimRecSize
        texturesOffset == materialsOffset + Len(BaseMaterials) * MatRecSize
        nodesOffset == texturesOffset + Len(BaseTextures) * TexRecSize
        npiOffset == nodesOffset + Len(BaseNodes) * NodeRecSize
        nciOffset == npiOffset + Len(BaseNodePrimitiveIndices) * IndexSize
        stringTableOffset == nciOffset + Len(BaseNodeChildIndices) * IndexSize
        blobOffset == stringTableOffset + BaseStringTableSize
        cursor == blobOffset + BaseBlobSize
    IN  [magic |-> SMODEL_MAGIC,
         versionMajor |-> 2,
         versionMinor |-> 1,
         meshCount |-> Len(BaseMeshes),
         primitiveCount |-> Len(BasePrimitives),
         materialCount |-> Len(BaseMaterials),
         textureCount |-> Len(BaseTextures),
         nodeCount |-> Len(BaseNodes),
         nodePrimitiveIndexCount |-> Len(BaseNodePrimitiveIndices),
         nodeChildIndicesCount |-> Len(BaseNodeChildIndices),
         meshesOffset |-> meshesOffset,
         primitivesOffset |-> primitivesOffset,
         materialsOffset |-> materialsOffset,
         texturesOffset |-> texturesOffset,
         nodesOffset |-> nodesOffset,
         nodePrimitiveIndicesOffset |-> npiOffset,
         nodeChildIndicesOffset |-> nciOffset % U32Mod,
         stringTableOffset |-> stringTableOffset,
         stringTableSize |-> BaseStringTableSize % U32Mod,
         blobOffset |-> blobOffset,
         blobSize |-> BaseBlobSize % U32Mod,
         fileSizeBytes |-> cursor % U32Mod]

BaseSize == CookHeader.blobOffset + BaseBlobSize

BaseFile ==
    [openable |-> 1, readable |-> 1, size |-> BaseSize, hdr |-> CookHeader,
     meshes |-> BaseMeshes, textures |-> BaseTextures,
     primitives |-> BasePrimitives, materials |-> BaseMaterials,
     nodes |-> BaseNodes, nodePrimitiveIndices |-> BaseNodePrimitiveIndices,
     nodeChildIndices |-> BaseNodeChildIndices]

-----------------------------------------------------------------------------
\* Input files: the cooked file with up to two fields changed.  A change is
\* [k: which part, i: record number (0 when unused), f: field, v: new value].

Chg(k, i, f, v) == [k |-> k, i |-> i, f |-> f, v |-> v]

NoChange == Chg("none", 0, "", 0)

IoChanges ==
    { Chg("io", 0, "openable", 0), Chg("io", 0, "readable", 0),
      Chg("io", 0, "size", 0), Chg("io", 0, "size", HeaderSize - 1),
      Chg("io", 0, "size", BaseSize - 1), Chg("io", 0, "size", BaseSize + 8) }

HeaderChanges ==
    { Chg("hdr", 0, "magic", SMODEL_MAGIC - 1),
      Chg("hdr", 0, "versionMajor", 1), Chg("hdr", 0, "versionMajor", 3),
      Chg("hdr", 0, "versionMinor", 0), Chg("hdr", 0, "versionMinor", 2),
      Chg("hdr", 0, "fileSizeBytes", 0),
      Chg("hdr", 0, "fileSizeBytes", BaseSize + 8),
      Chg("hdr", 0, "fileSizeBytes", BaseSize + 1) }

\* Offsets past the end of the file and counts too large for it
SectionChanges ==
    { Chg("hdr", 0, f, BaseSize + 1) :
        f \in {"stringTableOffset", "blobOffset", "meshesOffset", "primitivesOffset",
               "materialsOffset", "texturesOffset", "nodesOffset",
               "nodePrimitiveIndicesOffset", "nodeChildIndicesOffset"} }
    \cup
    { Chg("hdr", 0, f, U64_MAX) : f \in {"stringTableOffset", "meshesOffset"} }
    \cup
    { Chg("hdr", 0, f, U32_MAX) :
        f \in {"stringTableSize", "blobSize", "meshCount", "primitiveCount",
               "materialCount", "textureCount", "nodeCount",
               "nodePrimitiveIndexCount", "nodeChildIndicesCount"} }
    \cup
    { Chg("hdr", 0, f, 0) :
        f \in {"meshCount", "materialCount", "textureCount", "nodeCount",
               "nodePrimitiveIndexCount", "nodeChildIndicesCount"} }
    \cup
    { Chg("hdr", 0, "blobSize", 200), Chg("hdr", 0, "nodePrimitiveIndexCount", 1) }

MeshChanges ==
    UNION { { Chg("mesh", i, "vertexDataOffset", BaseBlobSize),
              Chg("mesh", i, "vertexDataOffset", U64_MAX),
              Chg("mesh", i, "vertexDataSize", BaseMeshes[i].vertexDataSize - VertexStride),
              Chg("mesh", i, "vertexDataSize", U32_MAX),
              Chg("mesh", i, "indexDataOffset", U64_MAX),
              Chg("mesh", i, "indexDataSize", U32_MAX),
              Chg("mesh", i, "vertexCount", 0),
              Chg("mesh", i, "vertexCount", BaseMeshes[i].vertexCount + U32Mod \div 16),
              Chg("mesh", i, "vertexStride", 0) } : i \in 1..Len(BaseMeshes) }

TextureChanges ==
    { Chg("texture", 1, "imageDataOffset", U64_MAX),
      Chg("texture", 1, "imageDataOffset", BaseBlobSize),
      Chg("texture", 1, "imageDataSize", U32_MAX) }

PrimitiveChanges ==
    { Chg("primitive", 1, "meshIndex", 2), Chg("primitive", 2, "meshIndex", U32_MAX),
      Chg("primitive", 1, "materialIndex", 1), Chg("primitive", 2, "materialIndex", 1) }

MaterialChanges ==
    { Chg("material", 1, "baseColorTexture", 1),
      Chg("material", 1, "baseColorTexture", -2),
      Chg("material", 1, "normalTexture", 0),
      Chg("material", 1, "emissiveTexture", 5) }

NodeChanges ==
    UNION { { Chg("node", i, "parentIndex", Len(BaseNodes)),
              Chg("node", i, "parentIndex", 1),
              Chg("node", i, "firstChildIndex", U32_MAX),
              Chg("node", i, "firstChildIndex", 1),
              Chg("node", i, "firstChildIndex", 2),
              Chg("node", i, "childCount", 1),
              Chg("node", i, "childCount", 3),
              Chg("node", i, "childCount", U32_MAX),
              Chg("node", i, "firstPrimitiveIndex", U32_MAX),
              Chg("node", i, "firstPrimitiveIndex", 2),
              Chg("node", i, "primitiveCount", 2),
              Chg("node", i, "primitiveCount", U32_MAX) } : i \in 1..Len(BaseNodes) }

IndexChanges ==
    { Chg("npi", i, "", v) : i \in 1..Len(BaseNodePrimitiveIndices), v \in {0, 2} }
    \cup
    { Chg("nci", i, "", v) : i \in 1..Len(BaseNodeChildIndices), v \in {0, 1, 3, U32_MAX} }

Changes ==
    {NoChange} \cup IoChanges \cup HeaderChanges \cup SectionChanges \cup MeshChanges
    \cup TextureChanges \cup PrimitiveChanges \cup MaterialChanges \cup NodeChanges
    \cup IndexChanges

Apply(fl, c) ==
    CASE c.k = "none" -> fl
      [] c.k = "io" -> [fl EXCEPT ![c.f] = c.v]
      [] c.k = "hdr" -> [fl EXCEPT !.hdr[c.f] = c.v]
      [] c.k = "mesh" -> [fl EXCEPT !.meshes[c.i][c.f] = c.v]
      [] c.k = "texture" -> [fl EXCEPT !.textures[c.i][c.f] = c.v]
      [] c.k = "primitive" -> [fl EXCEPT !.primitives[c.i][c.f] = c.v]
      [] c.k = "material" -> [fl EXCEPT !.materials[c.i][c.f] = c.v]
      [] c.k = "node" -> [fl EXCEPT !.nodes[c.i][c.f] = c.v]
      [] c.k = "npi" -> [fl EXCEPT !.nodePrimitiveIndices[c.i] = c.v]
      [] c.k = "nci" -> [fl EXCEPT !.nodeChildIndices[c.i] = c.v]

InputFiles == { Apply(Apply(BaseFile, c1), c2) : c1, c2 \in Changes }

\* The objects outside LoadSModelFile as their constructors leave them

\* SModelFileView{}: header and stringTable are nullptr
DefaultStrView == [header |-> Null, stringTable |-> Null, stringTableSize |-> 0, bytes |-> << >>]

\* The three masks of a query: the signature S, the required R, the excluded E
MaskNames == {"S", "R", "E"}

\* ComponentMask(): no words
EmptyMask == << >>

\* ComponentRegistry(): no names
EmptyMap == [n \in {} |-> 0]

NoCall == [op |-> "none"]

StringsIdle == strView = DefaultStrView

MasksIdle ==
    /\ masks = [m \in MaskNames |-> EmptyMask]
    /\ present = [m \in MaskNames |-> {}]

RegistryIdle ==
    /\ m_nameToId = EmptyMap
    /\ m_idToName = << >>
    /\ seen = << >>

\* VerifyLoadSModel is not running
VerifyIdle ==
    /\ modelAsset = [nodes |-> << >>, nodePrimitiveIndices |-> << >>,
                     nodeChildIndices |-> << >>, primCount |-> 0]
    /\ vpc = "Idle"
    /\ vi = 0
    /\ dfsStack = << >>
    /\ visited = << >>
    /\ expectedGlobals = << >>
    /\ nodeOk = TRUE
    /\ computed = << >>

\* LoadSMeshV0FromFile has no file to open
NoMeshFile == [exists |-> FALSE]

MeshIdle == meshFile = NoMeshFile

\* The cooker has not run
NotCooked == [done |-> FALSE]

CookIdle ==
    /\ scene = << >>
    /\ cooked = NotCooked

\* StringTable(): data holds the one NUL byte
TableIdle ==
    /\ strings = <<0>>
    /\ added = << >>

\* No update has run
NoUpdate == [done |-> FALSE]

\* A default-constructed RenderSystem
RenderIdle ==
    /\ m_assets = FALSE
    /\ m_renderer = FALSE
    /\ m_camera = FALSE
    /\ m_passes = EmptyMap
    /\ registered = << >>
    /\ lastUpdate = NoUpdate

OtherIdle ==
    /\ VerifyIdle
    /\ MeshIdle
    /\ CookIdle
    /\ TableIdle
    /\ RenderIdle

NonLoaderIdle ==
    /\ StringsIdle
    /\ MasksIdle
    /\ RegistryIdle
    /\ OtherIdle
    /\ call = NoCall

\* No call of LoadSModelFile is in progress
LoaderIdle ==
    /\ file = BaseFile
    /\ pc = "Idle"
    /\ outView = FreshView
    /\ outError = ""
    /\ ret = "none"
    /\ evaluated = << >>
    /\ ni = 0
    /\ readPastTable = FALSE

\* The loader, the string view, the masks and the registry are idle
EarlierIdle ==
    /\ LoaderIdle
    /\ StringsIdle
    /\ MasksIdle
    /\ RegistryIdle

earlierVars ==
    <<file, pc, outView, outError, ret, evaluated, ni, readPastTable,
      strView, masks, present, m_nameToId, m_idToName, seen>>

LoaderInit ==
    /\ NonLoaderIdle
    /\ file \in InputFiles
    /\ \E stale \in BOOLEAN :
         /\ outView = IF stale THEN StaleView ELSE FreshView
         /\ outError = IF stale THEN "stale error" ELSE ""
    /\ pc = "Begin"
    /\ ret = "none"
    /\ evaluated = << >>
    /\ ni = 0
    /\ readPastTable = FALSE

-----------------------------------------------------------------------------
\* Helpers of SModelLoader.cpp and ModelFormat.h

\* uint64_t arithmetic
isRangeInsideFile(begin, size, fileSize) ==
    IF begin > fileSize THEN FALSE
    ELSE IF size > fileSize THEN FALSE
    ELSE IF (begin + size) % U64Mod > fileSize THEN FALSE
    ELSE TRUE

tableBytes(count, recSize) == (count * recSize) % U64Mod

tableRangeValid(tableOffset, count, recSize, fileSize) ==
    isRangeInsideFile(tableOffset, tableBytes(count, recSize), fileSize)

tableRangeError(tableOffset, count, recSize, fileSize) ==
    "Table out of file bounds. offset=" \o ToString(tableOffset)
        \o " bytes=" \o ToString(tableBytes(count, recSize))
        \o " fileSize=" \o ToString(fileSize)

\* isHeaderCompatible demanding the loader's own minor version
isHeaderCompatibleExactMinor(h) ==
    IF h.magic # SMODEL_MAGIC THEN FALSE
    ELSE IF h.versionMajor # SMODEL_VERSION_MAJOR THEN FALSE
    ELSE IF h.versionMinor # SMODEL_VERSION_MINOR THEN FALSE
    ELSE TRUE

isHeaderCompatible(h) ==
    IF h.magic # SMODEL_MAGIC THEN FALSE
    ELSE IF h.versionMajor # SMODEL_VERSION_MAJOR THEN FALSE
    ELSE IF h.versionMinor < SMODEL_VERSION_MINOR THEN FALSE
    ELSE TRUE

\* The fileSizeBytes check without the exemption of a zero field
fileSizeBytesMismatchNoZero(h, uFileSize) ==
    h.fileSizeBytes # uFileSize

\* The fileSizeBytes sanity check: TRUE when the file is rejected
fileSizeBytesMismatch(h, uFileSize) ==
    h.fileSizeBytes # 0 /\ h.fileSizeBytes # uFileSize

\* The product taken in uint32_t
expectedVBSize32(m) == (m.vertexCount * m.vertexStride) % U32Mod

\* uint64_t(vertexCount) * uint64_t(vertexStride)
expectedVBSize(m) == (m.vertexCount * m.vertexStride) % U64Mod

\* offset + size of a blob slice, as the comparison with blobSize computes it
sliceEnd(offset, size) == (offset + size) % U64Mod

\* The checks on one mesh record, in code order: "" when the record passes
meshRecordError(i, m, blobSize) ==
    IF sliceEnd(m.vertexDataOffset, m.vertexDataSize) > blobSize
    THEN "Mesh vertex data slice out of blob bounds (meshIndex=" \o ToString(i) \o ")"
    ELSE IF sliceEnd(m.indexDataOffset, m.indexDataSize) > blobSize
    THEN "Mesh index data slice out of blob bounds (meshIndex=" \o ToString(i) \o ")"
    ELSE IF m.vertexCount = 0 \/ m.vertexStride = 0
    THEN "Mesh has invalid vertexCount/vertexStride (meshIndex=" \o ToString(i) \o ")"
    ELSE IF m.vertexDataSize # expectedVBSize(m)
    THEN "Mesh vertexDataSize mismatch (meshIndex=" \o ToString(i) \o ")"
    ELSE ""

textureRecordError(i, t, blobSize) ==
    IF sliceEnd(t.imageDataOffset, t.imageDataSize) > blobSize
    THEN "Texture image data slice out of blob bounds (textureIndex=" \o ToString(i) \o ")"
    ELSE ""

\* primitiveRecordError without the materialIndex check
primitiveRecordErrorMeshOnly(i, p, h) ==
    IF p.meshIndex >= h.meshCount
    THEN "Primitive references invalid meshIndex (primitiveIndex=" \o ToString(i) \o ")"
    ELSE ""

primitiveRecordError(i, p, h) ==
    IF p.meshIndex >= h.meshCount
    THEN "Primitive references invalid meshIndex (primitiveIndex=" \o ToString(i) \o ")"
    ELSE IF p.materialIndex >= h.materialCount
    THEN "Primitive references invalid materialIndex (primitiveIndex=" \o ToString(i) \o ")"
    ELSE ""

\* The lambda checkTex: TRUE when the index is accepted
checkTex(texIndex, textureCount) ==
    IF texIndex < 0 THEN TRUE
    ELSE IF texIndex >= textureCount THEN FALSE
    ELSE TRUE

TexFields ==
    << "baseColorTexture", "normalTexture", "metallicRoughnessTexture",
       "occlusionTexture", "emissiveTexture" >>

materialRecordError(i, mat, h) ==
    LET bad == { j \in 1..Len(TexFields) : ~checkTex(mat[TexFields[j]], h.textureCount) }
    IN  IF bad = {} THEN ""
        ELSE "Material references invalid texture index (materialIndex=" \o ToString(i)
                 \o ", field=" \o TexFields[Min(bad)] \o ")"

\* The error of the first failing record of a table loop, "" when every
\* record passes.  errs[i] is the error of record i (0-based).
firstRecordError(errs) ==
    LET bad == { i \in DOMAIN errs : errs[i] # "" }
    IN  IF bad = {} THEN "" ELSE errs[Min(bad)]

\* nodeRecordError without the parentIndex check
nodeRecordErrorNoParent(nr, nodeCount, idxCount) ==
    IF nr.childCount > 0 /\ nr.firstChildIndex = U32_MAX
    THEN "Node has children but firstChild == UINT32_MAX"
    ELSE IF nr.childCount > 0 /\ (nr.firstChildIndex + nr.childCount) % U32Mod > nodeCount
    THEN "Node children range out of bounds"
    ELSE IF nr.primitiveCount > 0
            /\ (nr.firstPrimitiveIndex + nr.primitiveCount) % U32Mod > idxCount
    THEN "Node primitive index range out of bounds"
    ELSE ""

\* The checks on node record nr before its primitive indices are read
nodeRecordError(nr, nodeCount, idxCount) ==
    IF nr.parentIndex # U32_MAX /\ nr.parentIndex >= nodeCount
    THEN "Node parentIndex out of bounds"
    ELSE IF nr.childCount > 0 /\ nr.firstChildIndex = U32_MAX
    THEN "Node has children but firstChild == UINT32_MAX"
    ELSE IF nr.childCount > 0 /\ (nr.firstChildIndex + nr.childCount) % U32Mod > nodeCount
    THEN "Node children range out of bounds"
    ELSE IF nr.primitiveCount > 0
            /\ (nr.firstPrimitiveIndex + nr.primitiveCount) % U32Mod > idxCount
    THEN "Node primitive index range out of bounds"
    ELSE ""

\* Index of the k-th read of nodePrimitiveIndices for node nr (uint32_t sum)
primReadIndex(nr, k) == (nr.firstPrimitiveIndex + k) % U32Mod

-----------------------------------------------------------------------------
\* LoadSModelFile, one action per gate

\* `return false` with outError set
Reject(msg) ==
    /\ outError' = msg
    /\ ret' = "false"
    /\ pc' = "Done"

\* A check at position `here`: msg = "" when it passes and control moves on
Gate(here, check, msg, next) ==
    /\ pc = here
    /\ evaluated' = Append(evaluated, check)
    /\ IF msg # "" THEN Reject(msg)
       ELSE pc' = next /\ UNCHANGED <<outError, ret>>

\* outError.clear(); outView = SModelFileView{};
Begin ==
    /\ pc = "Begin"
    /\ outError' = ""
    /\ outView' = FreshView
    /\ pc' = "Open"
    /\ UNCHANGED <<nonLoaderVars, file, ret, evaluated, ni, readPastTable>>

OpenFile ==
    /\ Gate("Open", "open",
            IF file.openable = 0 THEN "Failed to open file: " \o Path ELSE "", "Tell")
    /\ UNCHANGED <<nonLoaderVars, file, outView, ni, readPastTable>>

CheckNonEmpty ==
    /\ Gate("Tell", "nonEmpty",
            IF file.size <= 0 THEN "File is empty: " \o Path ELSE "", "Read")
    /\ UNCHANGED <<nonLoaderVars, file, outView, ni, readPastTable>>

\* fileBytes is resized before the read is attempted
ReadBytes ==
    /\ Gate("Read", "read",
            IF file.readable = 0 THEN "Failed to read file bytes: " \o Path ELSE "",
            "HeaderSize")
    /\ outView' = [outView EXCEPT !.fileBytes = file.size]
    /\ UNCHANGED <<nonLoaderVars, file, ni, readPastTable>>

CheckHeaderSize ==
    /\ Gate("HeaderSize", "headerSize",
            IF outView.fileBytes < HeaderSize
            THEN "File too small to contain SModelHeader." ELSE "",
            "Compat")
    /\ UNCHANGED <<nonLoaderVars, file, outView, ni, readPastTable>>

\* outView.header points at the first byte before the header is checked
CheckCompat ==
    /\ Gate("Compat", "compat",
            IF ~isHeaderCompatible(file.hdr)
            THEN "SModel header incompatible (bad magic or unsupported version)." ELSE "",
            "FileSizeBytes")
    /\ outView' = [outView EXCEPT !.header = 0]
    /\ UNCHANGED <<nonLoaderVars, file, ni, readPastTable>>

CheckFileSizeBytes ==
    /\ Gate("FileSizeBytes", "fileSizeBytes",
            IF fileSizeBytesMismatch(file.hdr, outView.fileBytes)
            THEN "SModel header fileSizeBytes does not match actual file size." ELSE "",
            "StringTable")
    /\ UNCHANGED <<nonLoaderVars, file, outView, ni, readPastTable>>

CheckStringTable ==
    /\ Gate("StringTable", "stringTable",
            IF ~isRangeInsideFile(file.hdr.stringTableOffset, file.hdr.stringTableSize,
                                  outView.fileBytes)
            THEN "String table out of bounds." ELSE "",
            "Blob")
    /\ UNCHANGED <<nonLoaderVars, file, outView, ni, readPastTable>>

\* CheckBlob without its `return false`: the error is recorded and control falls through
CheckBlobFallsThrough ==
    /\ pc = "Blob"
    /\ evaluated' = Append(evaluated, "blob")
    /\ outError' = IF ~isRangeInsideFile(file.hdr.blobOffset, file.hdr.blobSize,
                                         outView.fileBytes)
                   THEN "Blob section out of bounds." ELSE outError
    /\ pc' = "MeshTable"
    /\ UNCHANGED <<nonLoaderVars, file, outView, ret, ni, readPastTable>>

CheckBlob ==
    /\ Gate("Blob", "blob",
            IF ~isRangeInsideFile(file.hdr.blobOffset, file.hdr.blobSize, outView.fileBytes)
            THEN "Blob section out of bounds." ELSE "",
            "MeshTable")
    /\ UNCHANGED <<nonLoaderVars, file, outView, ni, readPastTable>>

\* tableRangeValid<T>(offset, count, uFileSize, outError) as a gate
TableGate(here, check, tableOffset, count, recSize, next) ==
    Gate(here, check,
         IF ~tableRangeValid(tableOffset, count, recSize, outView.fileBytes)
         THEN tableRangeError(tableOffset, count, recSize, outView.fileBytes) ELSE "",
         next)

CheckMeshTable ==
    /\ TableGate("MeshTable", "meshTable", file.hdr.meshesOffset, file.hdr.meshCount,
                 MeshRecSize, "PrimitiveTable")
    /\ UNCHANGED <<nonLoaderVars, file, outView, ni, readPastTable>>

CheckPrimitiveTable ==
    /\ TableGate("PrimitiveTable", "primitiveTable", file.hdr.primitivesOffset,
                 file.hdr.primitiveCount, PrimRecSize, "MaterialTable")
    /\ UNCHANGED <<nonLoaderVars, file, outView, ni, readPastTable>>

CheckMaterialTable ==
    /\ TableGate("MaterialTable", "materialTable", file.hdr.materialsOffset,
                 file.hdr.materialCount, MatRecSize, "TextureTable")
    /\ UNCHANGED <<nonLoaderVars, file, outView, ni, readPastTable>>

CheckTextureTable ==
    /\ TableGate("TextureTable", "textureTable", file.hdr.texturesOffset,
                 file.hdr.textureCount, TexRecSize, "NodeTable")
    /\ UNCHANGED <<nonLoaderVars, file, outView, ni, readPastTable>>

\* if (nodeCount > 0) tableRangeValid<SModelNodeRecord>(...)
CheckNodeTable ==
    /\ IF file.hdr.nodeCount > 0
       THEN TableGate("NodeTable", "nodeTable", file.hdr.nodesOffset, file.hdr.nodeCount,
                      NodeRecSize, "NodePrimIdxTable")
       ELSE /\ pc = "NodeTable"
            /\ pc' = "NodePrimIdxTable"
            /\ UNCHANGED <<outError, ret, evaluated>>
    /\ UNCHANGED <<nonLoaderVars, file, outView, ni, readPastTable>>

\* if (nodePrimitiveIndexCount > 0) isRangeInsideFile(offset, count * 4, uFileSize)
CheckNodePrimIdxTable ==
    /\ IF file.hdr.nodePrimitiveIndexCount > 0
       THEN Gate("NodePrimIdxTable", "nodePrimIdxTable",
                 IF ~isRangeInsideFile(file.hdr.nodePrimitiveIndicesOffset,
                                       tableBytes(file.hdr.nodePrimitiveIndexCount, IndexSize),
                                       outView.fileBytes)
                 THEN "NodePrimitiveIndices table out of file bounds." ELSE "",
                 "BuildViews")
       ELSE /\ pc = "NodePrimIdxTable"
            /\ pc' = "BuildViews"
            /\ UNCHANGED <<outError, ret, evaluated>>
    /\ UNCHANGED <<nonLoaderVars, file, outView, ni, readPastTable>>

\* Typed pointers into fileBytes, kept as offsets from its first byte
BuildViews ==
    /\ pc = "BuildViews"
    /\ outView' =
         [outView EXCEPT
            !.meshes = file.hdr.meshesOffset,
            !.primitives = file.hdr.primitivesOffset,
            !.materials = file.hdr.materialsOffset,
            !.textures = file.hdr.texturesOffset,
            !.nodes = IF file.hdr.nodeCount > 0 THEN file.hdr.nodesOffset ELSE @,
            !.nodePrimitiveIndices =
                IF file.hdr.nodePrimitiveIndexCount > 0
                THEN file.hdr.nodePrimitiveIndicesOffset ELSE @,
            !.stringTable = file.hdr.stringTableOffset,
            !.blob = file.hdr.blobOffset]
    /\ pc' = "Meshes"
    /\ UNCHANGED <<nonLoaderVars, file, outError, ret, evaluated, ni, readPastTable>>

meshesError(fl) ==
    firstRecordError([i \in 0..(fl.hdr.meshCount - 1) |->
                        meshRecordError(i, fl.meshes[i + 1], fl.hdr.blobSize)])

texturesError(fl) ==
    firstRecordError([i \in 0..(fl.hdr.textureCount - 1) |->
                        textureRecordError(i, fl.textures[i + 1], fl.hdr.blobSize)])

primitivesError(fl) ==
    firstRecordError([i \in 0..(fl.hdr.primitiveCount - 1) |->
                        primitiveRecordError(i, fl.primitives[i + 1], fl.hdr)])

materialsError(fl) ==
    firstRecordError([i \in 0..(fl.hdr.materialCount - 1) |->
                        materialRecordError(i, fl.materials[i + 1], fl.hdr)])

ValidateMeshes ==
    /\ Gate("Meshes", "meshes", meshesError(file), "Textures")
    /\ UNCHANGED <<nonLoaderVars, file, outView, ni, readPastTable>>

ValidateTextures ==
    /\ Gate("Textures", "textures", texturesError(file), "Primitives")
    /\ UNCHANGED <<nonLoaderVars, file, outView, ni, readPastTable>>

ValidatePrimitives ==
    /\ Gate("Primitives", "primitives", primitivesError(file), "Materials")
    /\ UNCHANGED <<nonLoaderVars, file, outView, ni, readPastTable>>

ValidateMaterials ==
    /\ Gate("Materials", "materials", materialsError(file), "Nodes")
    /\ UNCHANGED <<nonLoaderVars, file, outView, ni, readPastTable>>

\* The reads of nodePrimitiveIndices made for node i (0-based) once its range
\* check passed.  A read outside the bytes of the table yields an arbitrary
\* value or faults, so the iteration can end in more than one way.
\*   outcomes: the ways the iteration can end
\*   past: TRUE when a read is at an index >= nodePrimitiveIndexCount
nodePrimReads(fl, i) ==
    LET nr == fl.nodes[i + 1]
        table == fl.nodePrimitiveIndices
        K == 0..(nr.primitiveCount - 1)
        Wild == { k \in K : primReadIndex(nr, k) >= Len(table) }
        Bad == { k \in K : /\ primReadIndex(nr, k) < Len(table)
                           /\ table[primReadIndex(nr, k) + 1] >= fl.hdr.primitiveCount }
        Stop == Wild \cup Bad
        last == IF Stop = {} THEN nr.primitiveCount - 1 ELSE Min(Stop)
    IN  [outcomes |-> IF Stop = {} THEN {"pass"}
                      ELSE IF Min(Stop) \in Bad THEN {"fail"}
                      ELSE {"fail", "fault"} \cup (IF Bad = {} THEN {"pass"} ELSE {}),
         past |-> \E k \in 0..last :
                     primReadIndex(nr, k) >= fl.hdr.nodePrimitiveIndexCount]

\* One iteration of the node loop
ValidateNode ==
    /\ pc = "Nodes"
    /\ ni < file.hdr.nodeCount
    /\ LET err == nodeRecordError(file.nodes[ni + 1], file.hdr.nodeCount,
                                  file.hdr.nodePrimitiveIndexCount)
           reads == nodePrimReads(file, ni)
       IN  /\ evaluated' = IF ni = 0 THEN Append(evaluated, "nodes") ELSE evaluated
           /\ IF err # ""
              THEN Reject(err) /\ UNCHANGED <<ni, readPastTable>>
              ELSE /\ readPastTable' = (readPastTable \/ reads.past)
                   /\ \E o \in reads.outcomes :
                        CASE o = "fail" ->
                               Reject("Node references invalid primitive index")
                               /\ UNCHANGED ni
                          [] o = "fault" ->
                               pc' = "Fault" /\ UNCHANGED <<outError, ret, ni>>
                          [] o = "pass" ->
                               ni' = ni + 1 /\ UNCHANGED <<pc, outError, ret>>
    /\ UNCHANGED <<nonLoaderVars, file, outView>>

\* return true;
Accept ==
    /\ pc = "Nodes"
    /\ ni >= file.hdr.nodeCount
    /\ ret' = "true"
    /\ pc' = "Done"
    /\ UNCHANGED <<nonLoaderVars, file, outView, outError, evaluated, ni, readPastTable>>

LoaderNext ==
    \/ Begin
    \/ OpenFile
    \/ CheckNonEmpty
    \/ ReadBytes
    \/ CheckHeaderSize
    \/ CheckCompat
    \/ CheckFileSizeBytes
    \/ CheckStringTable
    \/ CheckBlob
    \/ CheckMeshTable
    \/ CheckPrimitiveTable
    \/ CheckMaterialTable
    \/ CheckTextureTable
    \/ CheckNodeTable
    \/ CheckNodePrimIdxTable
    \/ BuildViews
    \/ ValidateMeshes
    \/ ValidateTextures
    \/ ValidatePrimitives
    \/ ValidateMaterials
    \/ ValidateNode
    \/ Accept

SpecLoader == LoaderInit /\ [][LoaderNext]_vars

-----------------------------------------------------------------------------
\* What the format requires of a file, stated over unbounded integers

CheckOrder ==
    << "open", "nonEmpty", "read", "headerSize", "compat", "fileSizeBytes",
       "stringTable", "blob", "meshTable", "primitiveTable", "materialTable",
       "textureTable", "nodeTable", "nodePrimIdxTable", "meshes", "textures",
       "primitives", "materials", "nodes" >>

\* The byte range [off, off + bytes) does not lie inside a file of `size` bytes
RangeOutside(off, bytes, size) == off + bytes > size

\* The node loop can run to its end / can return false
nodesCanAccept(fl) ==
    \A i \in 0..(fl.hdr.nodeCount - 1) :
        /\ nodeRecordError(fl.nodes[i + 1], fl.hdr.nodeCount,
                           fl.hdr.nodePrimitiveIndexCount) = ""
        /\ "pass" \in nodePrimReads(fl, i).outcomes

nodesCanReject(fl) ==
    \E i \in 0..(fl.hdr.nodeCount - 1) :
        /\ \A j \in 0..(i - 1) :
             /\ nodeRecordError(fl.nodes[j + 1], fl.hdr.nodeCount,
                                fl.hdr.nodePrimitiveIndexCount) = ""
             /\ "pass" \in nodePrimReads(fl, j).outcomes
        /\ \/ nodeRecordError(fl.nodes[i + 1], fl.hdr.nodeCount,
                              fl.hdr.nodePrimitiveIndexCount) # ""
           \/ "fail" \in nodePrimReads(fl, i).outcomes

\* Whether check c is part of the run on file fl (three checks are conditional)
Applies(fl, c) ==
    CASE c \in {"nodeTable", "nodes"} -> fl.hdr.nodeCount > 0
      [] c = "nodePrimIdxTable" -> fl.hdr.nodePrimitiveIndexCount > 0
      [] OTHER -> TRUE

\* File fl has the defect check c looks for
Defect(fl, c) ==
    CASE c = "open" -> fl.openable = 0
      [] c = "nonEmpty" -> fl.size = 0
      [] c = "read" -> fl.readable = 0
      [] c = "headerSize" -> fl.size < HeaderSize
      [] c = "compat" ->
            \/ fl.hdr.magic # SMODEL_MAGIC
            \/ fl.hdr.versionMajor # SMODEL_VERSION_MAJOR
            \/ fl.hdr.versionMinor < SMODEL_VERSION_MINOR
      [] c = "fileSizeBytes" -> fl.hdr.fileSizeBytes # 0 /\ fl.hdr.fileSizeBytes # fl.size
      [] c = "stringTable" ->
            RangeOutside(fl.hdr.stringTableOffset, fl.hdr.stringTableSize, fl.size)
      [] c = "blob" -> RangeOutside(fl.hdr.blobOffset, fl.hdr.blobSize, fl.size)
      [] c = "meshTable" ->
            RangeOutside(fl.hdr.meshesOffset, fl.hdr.meshCount * MeshRecSize, fl.size)
      [] c = "primitiveTable" ->
            RangeOutside(fl.hdr.primitivesOffset, fl.hdr.primitiveCount * PrimRecSize, fl.size)
      [] c = "materialTable" ->
            RangeOutside(fl.hdr.materialsOffset, fl.hdr.materialCount * MatRecSize, fl.size)
      [] c = "textureTable" ->
            RangeOutside(fl.hdr.texturesOffset, fl.hdr.textureCount * TexRecSize, fl.size)
      [] c = "nodeTable" ->
            RangeOutside(fl.hdr.nodesOffset, fl.hdr.nodeCount * NodeRecSize, fl.size)
      [] c = "nodePrimIdxTable" ->
            RangeOutside(fl.hdr.nodePrimitiveIndicesOffset,
                         fl.hdr.nodePrimitiveIndexCount * IndexSize, fl.size)
      [] c = "meshes" -> meshesError(fl) # ""
      [] c = "textures" -> texturesError(fl) # ""
      [] c = "primitives" -> primitivesError(fl) # ""
      [] c = "materials" -> materialsError(fl) # ""
      [] c = "nodes" -> nodesCanReject(fl)

\* Error string msg is the one check c reports on file fl
ErrorNames(fl, c, msg) ==
    CASE c = "open" -> msg = "Failed to open file: " \o Path
      [] c = "nonEmpty" -> msg = "File is empty: " \o Path
      [] c = "read" -> msg = "Failed to read file bytes: " \o Path
      [] c = "headerSize" -> msg = "File too small to contain SModelHeader."
      [] c = "compat" ->
            msg = "SModel header incompatible (bad magic or unsupported version)."
      [] c = "fileSizeBytes" ->
            msg = "SModel header fileSizeBytes does not match actual file size."
      [] c = "stringTable" -> msg = "String table out of bounds."
      [] c = "blob" -> msg = "Blob section out of bounds."
      [] c = "meshTable" ->
            msg = tableRangeError(fl.hdr.meshesOffset, fl.hdr.meshCount, MeshRecSize, fl.size)
      [] c = "primitiveTable" ->
            msg = tableRangeError(fl.hdr.primitivesOffset, fl.hdr.primitiveCount,
                                  PrimRecSize, fl.size)
      [] c = "materialTable" ->
            msg = tableRangeError(fl.hdr.materialsOffset, fl.hdr.materialCount,
                                  MatRecSize, fl.size)
      [] c = "textureTable" ->
            msg = tableRangeError(fl.hdr.texturesOffset, fl.hdr.textureCount,
                                  TexRecSize, fl.size)
      [] c = "nodeTable" ->
            msg = tableRangeError(fl.hdr.nodesOffset, fl.hdr.nodeCount, NodeRecSize, fl.size)
      [] c = "nodePrimIdxTable" -> msg = "NodePrimitiveIndices table out of file bounds."
      [] c = "meshes" -> msg = meshesError(fl)
      [] c = "textures" -> msg = texturesError(fl)
      [] c = "primitives" -> msg = primitivesError(fl)
      [] c = "materials" -> msg = materialsError(fl)
      [] c = "nodes" ->
            msg \in {"Node parentIndex out of bounds",
                     "Node has children but firstChild == UINT32_MAX",
                     "Node children range out of bounds",
                     "Node primitive index range out of bounds",
                     "Node references invalid primitive index"}

Accepted == ret = "true"

Rejected == ret = "false"

LastEvaluated == evaluated[Len(evaluated)]

-----------------------------------------------------------------------------
\* C1: the checks are evaluated in the one fixed order CheckOrder (conditional
\* checks that do not apply are left out); every check evaluated before the
\* last one passed; a run that returned false stopped at a check the file
\* fails, which is thereby the earliest failing check, evaluated nothing after
\* it and reports that check's error string; a run that returned true
\* evaluated every applicable check and the file passes all of them.
C1_FixedOrderHardGates ==
    LET app == SelectSeq(CheckOrder, LAMBDA c : Applies(file, c))
        n == Len(evaluated)
    IN  /\ n <= Len(app)
        /\ evaluated = SubSeq(app, 1, n)
        /\ \A i \in 1..n :
             IF app[i] = "nodes"
             THEN /\ Accepted => nodesCanAccept(file)
                  /\ Rejected => nodesCanReject(file)
             ELSE Defect(file, app[i]) <=> (i = n /\ Rejected)
        /\ Rejected => n > 0 /\ ErrorNames(file, app[n], outError)
        /\ Accepted => evaluated = app
        /\ ret # "none" => pc = "Done"

\* A file with a bad magic and a blob section out of bounds was rejected at
\* the header check, the earlier of the two.
C1_Witness ==
    /\ Rejected
    /\ Defect(file, "compat")
    /\ Defect(file, "blob")
    /\ LastEvaluated = "compat"

Evaluated(c) == \E i \in 1..Len(evaluated) : evaluated[i] = c

RejectedAt(c) == Rejected /\ LastEvaluated = c

-----------------------------------------------------------------------------
\* C2: whenever the load returned false the caller's view equals a freshly
\* reset view and outError is non-empty; whenever it returned true outError
\* is empty.
C2_NoViewOnFailure ==
    /\ Rejected => (outView = FreshView /\ outError # "")
    /\ Accepted => outError = ""

-----------------------------------------------------------------------------
\* The byte range of a table of `count` records lies inside the file
TableInside(off, count, recSize, size) == count = 0 \/ off + count * recSize <= size

\* C3: every accepted file has the byte range of each of its seven tables
\* inside the file.
C3_AllTablesInsideFile ==
    Accepted =>
        LET h == file.hdr
        IN  /\ TableInside(h.meshesOffset, h.meshCount, MeshRecSize, file.size)
            /\ TableInside(h.primitivesOffset, h.primitiveCount, PrimRecSize, file.size)
            /\ TableInside(h.materialsOffset, h.materialCount, MatRecSize, file.size)
            /\ TableInside(h.texturesOffset, h.textureCount, TexRecSize, file.size)
            /\ TableInside(h.nodesOffset, h.nodeCount, NodeRecSize, file.size)
            /\ TableInside(h.nodePrimitiveIndicesOffset, h.nodePrimitiveIndexCount,
                           IndexSize, file.size)
            /\ TableInside(h.nodeChildIndicesOffset, h.nodeChildIndicesCount,
                           IndexSize, file.size)

-----------------------------------------------------------------------------
\* C4: in every accepted file the vertex and index slice of every mesh record
\* and the image slice of every texture record end at or before blobSize.
C4_BlobSlicesInsideBlob ==
    Accepted =>
        /\ \A i \in 1..file.hdr.meshCount :
             /\ file.meshes[i].vertexDataOffset + file.meshes[i].vertexDataSize
                    <= file.hdr.blobSize
             /\ file.meshes[i].indexDataOffset + file.meshes[i].indexDataSize
                    <= file.hdr.blobSize
        /\ \A i \in 1..file.hdr.textureCount :
             file.textures[i].imageDataOffset + file.textures[i].imageDataSize
                 <= file.hdr.blobSize

-----------------------------------------------------------------------------
\* Entry idx (0-based) of an index table is present and below `limit`
EntryBelow(table, idx, limit) == idx < Len(table) /\ table[idx + 1] < limit

\* C5: in every accepted file each node's parentIndex is the sentinel or
\* < nodeCount, and the child range of a node with children lies inside the
\* node-child-index table with every entry of the range < nodeCount.
C5_NodeHierarchyInBounds ==
    Accepted =>
        \A i \in 1..file.hdr.nodeCount :
            LET nr == file.nodes[i]
            IN  /\ nr.parentIndex = U32_MAX \/ nr.parentIndex < file.hdr.nodeCount
                /\ nr.childCount > 0 =>
                     /\ nr.firstChildIndex + nr.childCount <= file.hdr.nodeChildIndicesCount
                     /\ \A k \in 0..(nr.childCount - 1) :
                          EntryBelow(file.nodeChildIndices, nr.firstChildIndex + k,
                                     file.hdr.nodeCount)

-----------------------------------------------------------------------------
\* C6: in every accepted file the primitive range of a node with primitives
\* lies inside the node-primitive-index table with every entry < primitiveCount,
\* and the loader never reads that table at an index >= nodePrimitiveIndexCount.
C6_NodePrimitiveRangeInBounds ==
    /\ ~readPastTable
    /\ Accepted =>
         \A i \in 1..file.hdr.nodeCount :
             LET nr == file.nodes[i]
             IN  nr.primitiveCount > 0 =>
                   /\ nr.firstPrimitiveIndex + nr.primitiveCount
                          <= file.hdr.nodePrimitiveIndexCount
                   /\ \A k \in 0..(nr.primitiveCount - 1) :
                        EntryBelow(file.nodePrimitiveIndices, nr.firstPrimitiveIndex + k,
                                   file.hdr.primitiveCount)

-----------------------------------------------------------------------------
\* The node graph of a file, nodes numbered from 0

NodeIds(fl) == 0..(fl.hdr.nodeCount - 1)

\* The nodes listed in node i's slice of the node-child-index table
Children(fl, i) ==
    LET nr == fl.nodes[i + 1]
    IN  { fl.nodeChildIndices[nr.firstChildIndex + k + 1] :
            k \in { j \in 0..(nr.childCount - 1) :
                      nr.firstChildIndex + j < Len(fl.nodeChildIndices) } }
        \cap NodeIds(fl)

Roots(fl) == { i \in NodeIds(fl) : fl.nodes[i + 1].parentIndex = U32_MAX }

RECURSIVE Descend(_, _, _)
\* The nodes reachable from set S in at most n steps along child slices
Descend(fl, S, n) ==
    IF n = 0 THEN S
    ELSE Descend(fl, S \cup UNION { Children(fl, i) : i \in S }, n - 1)

ReachableFrom(fl, i) == Descend(fl, {i}, fl.hdr.nodeCount)

IsForest(fl) ==
    /\ Roots(fl) # {}
    /\ \A c \in NodeIds(fl) : Cardinality({ p \in NodeIds(fl) : c \in Children(fl, p) }) <= 1
    /\ \A i \in NodeIds(fl) : i \notin Descend(fl, Children(fl, i), fl.hdr.nodeCount)
    /\ \A c \in NodeIds(fl) \ Roots(fl) :
         Cardinality({ r \in Roots(fl) : c \in ReachableFrom(fl, r) }) = 1

\* C7 as stated: the node graph of every accepted file with nodes is a forest.
C7_AcceptedIsForest ==
    (Accepted /\ file.hdr.nodeCount > 0) => IsForest(file)

\* C7 as amended: acceptance guarantees of the node hierarchy only that every
\* parentIndex is the sentinel or < nodeCount; the shape of the graph is not
\* a condition of acceptance.
C7_AcceptedParentsInBounds ==
    Accepted =>
        \A i \in 1..file.hdr.nodeCount :
            \/ file.nodes[i].parentIndex = U32_MAX
            \/ file.nodes[i].parentIndex < file.hdr.nodeCount

\* An accepted file whose node graph is not a forest
C7_Witness ==
    /\ Accepted
    /\ file.hdr.nodeCount > 0
    /\ ~IsForest(file)

-----------------------------------------------------------------------------
\* C8: the header gate rejects exactly the headers with a magic other than
\* SMODEL_MAGIC, a major version other than the loader's, or a minor version
\* below the loader's; newer minors pass.
C8_HeaderGate ==
    Evaluated("compat") =>
        (RejectedAt("compat") <=>
            \/ file.hdr.magic # SMODEL_MAGIC
            \/ file.hdr.versionMajor # SMODEL_VERSION_MAJOR
            \/ file.hdr.versionMinor < SMODEL_VERSION_MINOR)

\* A header with a newer minor version has passed the header gate
C8_Witness ==
    /\ Evaluated("compat")
    /\ ~Rejected
    /\ file.hdr.versionMinor > SMODEL_VERSION_MINOR

-----------------------------------------------------------------------------
\* C9: the fileSizeBytes gate rejects exactly the headers whose fileSizeBytes
\* is non-zero and differs from the number of bytes read.
C9_FileSizeGate ==
    Evaluated("fileSizeBytes") =>
        (RejectedAt("fileSizeBytes") <=>
            (file.hdr.fileSizeBytes # 0 /\ file.hdr.fileSizeBytes # file.size))

\* A header declaring fileSizeBytes = 0 has passed the gate on a file whose
\* byte count is not the cooked one
C9_Witness ==
    /\ Evaluated("fileSizeBytes")
    /\ ~Rejected
    /\ file.hdr.fileSizeBytes = 0
    /\ file.size # BaseSize

-----------------------------------------------------------------------------
\* Mesh record m has a usable vertex count and stride and a vertex slice of
\* exactly vertexCount * vertexStride bytes
MeshConsistent(m) ==
    /\ m.vertexCount > 0
    /\ m.vertexStride > 0
    /\ m.vertexDataSize = m.vertexCount * m.vertexStride

\* C10: every mesh record of an accepted file is consistent, and once the
\* mesh records were checked a file with an inconsistent mesh record has been
\* rejected by that check.
C10_MeshRecordsConsistent ==
    /\ Accepted => \A i \in 1..file.hdr.meshCount : MeshConsistent(file.meshes[i])
    /\ (Evaluated("meshes") /\ \E i \in 1..file.hdr.meshCount : ~MeshConsistent(file.meshes[i]))
         => RejectedAt("meshes")

\* A mesh record with both slices inside the blob was rejected for its
\* vertexDataSize
C10_Witness ==
    /\ RejectedAt("meshes")
    /\ outError = "Mesh vertexDataSize mismatch (meshIndex=1)"
    /\ file.meshes[2].vertexDataOffset + file.meshes[2].vertexDataSize <= file.hdr.blobSize
    /\ file.meshes[2].indexDataOffset + file.meshes[2].indexDataSize <= file.hdr.blobSize

-----------------------------------------------------------------------------
\* Primitive record p refers to a mesh record and a material record of the file
PrimitiveInBounds(p, h) ==
    /\ p.meshIndex < h.meshCount
    /\ p.materialIndex < h.materialCount

\* C11: every primitive record of an accepted file has meshIndex < meshCount
\* and materialIndex < materialCount; a file with at least one primitive and
\* no mesh records or no material records is never accepted; and once the
\* primitive records were checked, a file with a primitive record out of
\* bounds has been rejected by that check.
C11_PrimitiveRefsInBounds ==
    /\ Accepted => \A i \in 1..file.hdr.primitiveCount :
                      PrimitiveInBounds(file.primitives[i], file.hdr)
    /\ (/\ file.hdr.primitiveCount >= 1
        /\ (file.hdr.meshCount = 0 \/ file.hdr.materialCount = 0)) => ~Accepted
    /\ (/\ Evaluated("primitives")
        /\ \E i \in 1..file.hdr.primitiveCount :
              ~PrimitiveInBounds(file.primitives[i], file.hdr)) => RejectedAt("primitives")

\* A file with two primitives and materialCount = 0, all earlier checks
\* passing, was rejected for the materialIndex of its first primitive
C11_Witness ==
    /\ RejectedAt("primitives")
    /\ file.hdr.primitiveCount >= 1
    /\ file.hdr.materialCount = 0
    /\ file.hdr.meshCount > 0
    /\ outError = "Primitive references invalid materialIndex (primitiveIndex=0)"

-----------------------------------------------------------------------------
\* A texture-index field is -1 (none) or the index of a texture record
TexIndexValid(v, textureCount) == v = -1 \/ (0 <= v /\ v < textureCount)

\* C12: in every material record of an accepted file each of the five
\* texture-index fields is -1 or in [0, textureCount), and once the material
\* records were checked a file with any other value in such a field has been
\* rejected by that check.
C12_TextureIndicesValid ==
    /\ Accepted => \A i \in 1..file.hdr.materialCount : \A j \in 1..Len(TexFields) :
                      TexIndexValid(file.materials[i][TexFields[j]], file.hdr.textureCount)
    /\ (/\ Evaluated("materials")
        /\ \E i \in 1..file.hdr.materialCount : \E j \in 1..Len(TexFields) :
              ~TexIndexValid(file.materials[i][TexFields[j]], file.hdr.textureCount))
         => RejectedAt("materials")

-----------------------------------------------------------------------------
\* SModelFileView::getStringOrEmpty
\*
\* A looked-up view is [header, stringTable, stringTableSize, bytes]: header
\* is Null or points at the header, whose stringTableSize field is given,
\* stringTable is Null or points at bytes[1], and bytes are
\* the bytes of the file from the first byte of the string table to the end
\* of the file (the table, then what follows it).  Strings are sequences of
\* byte values; offsets into bytes are 0-based.

MaxStringTable == 4

ByteValues == {0, 97, 98}

\* What follows the string table in the file
AfterTable == { << >>, <<98, 0>> }

StrViews ==
    { DefaultStrView,
      [header |-> 0, stringTable |-> Null, stringTableSize |-> 2, bytes |-> << >>] }
    \cup
    UNION { { [header |-> 0, stringTable |-> 0, stringTableSize |-> n, bytes |-> t \o a] :
                t \in [1..n -> ByteValues], a \in AfterTable } : n \in 0..MaxStringTable }

StrOffsets == 0..(MaxStringTable + 1) \cup {U32_MAX}

\* std::memchr(s, 0, n) with s = bytes + from: whether a NUL was found, and
\* the offsets read
memchrNul(bytes, from, n) ==
    LET Z == { k \in from..(from + n - 1) : bytes[k + 1] = 0 }
    IN  [found |-> Z # {},
         reads |-> IF Z = {} THEN from..(from + n - 1) ELSE from..Min(Z)]

\* The C string at bytes + from as its caller reads it: up to the first NUL.
\* With no NUL before the end of the file the read runs off the buffer.
cstr(bytes, from) ==
    LET Z == { k \in from..(Len(bytes) - 1) : bytes[k + 1] = 0 }
    IN  IF Z = {}
        THEN [value |-> SubSeq(bytes, from + 1, Len(bytes)), reads |-> from..Len(bytes)]
        ELSE [value |-> SubSeq(bytes, from + 1, Min(Z)), reads |-> from..Min(Z)]

\* The literal "" returned
EmptyString == [value |-> << >>, reads |-> {}]

\* getStringOrEmpty without the memchr check
getStringOrEmptyNoTerminatorCheck(view, strOffset) ==
    IF view.header = Null \/ view.stringTable = Null THEN EmptyString
    ELSE IF strOffset = 0 THEN EmptyString
    ELSE IF strOffset >= view.stringTableSize THEN EmptyString
    ELSE cstr(view.bytes, view.stringTable + strOffset)

\* The returned string and the offsets of the table read by the function and
\* by the caller reading the returned string
getStringOrEmpty(view, strOffset) ==
    IF view.header = Null \/ view.stringTable = Null THEN EmptyString
    ELSE IF strOffset = 0 THEN EmptyString
    ELSE IF strOffset >= view.stringTableSize THEN EmptyString
    ELSE LET s == view.stringTable + strOffset
             maxRemaining == (view.stringTableSize - strOffset) % U64Mod
             nullPos == memchrNul(view.bytes, s, maxRemaining)
         IN  IF ~nullPos.found THEN [EmptyString EXCEPT !.reads = nullPos.reads]
             ELSE [value |-> cstr(view.bytes, s).value,
                   reads |-> nullPos.reads \cup cstr(view.bytes, s).reads]

StringsInit ==
    /\ LoaderIdle
    /\ OtherIdle
    /\ MasksIdle
    /\ RegistryIdle
    /\ strView \in StrViews
    /\ call = NoCall

GetStringOrEmpty ==
    \E off \in StrOffsets :
       LET r == getStringOrEmpty(strView, off)
       IN  /\ call' = [op |-> "getStringOrEmpty", strOffset |-> off,
                       value |-> r.value, reads |-> r.reads]
           /\ UNCHANGED <<file, pc, outView, outError, ret, evaluated, ni, readPastTable,
                          strView, masks, present, m_nameToId, m_idToName, seen,
                          otherVars>>

StringsNext == GetStringOrEmpty

SpecStrings == StringsInit /\ [][StringsNext]_vars

\* v is the run of non-NUL bytes of `table` that starts at offset off and is
\* followed by a NUL inside the table
IsStringAt(table, off, v) ==
    /\ off + Len(v) < Len(table)
    /\ \A k \in 1..Len(v) : v[k] = table[off + k] /\ v[k] # 0
    /\ table[off + Len(v) + 1] = 0

\* C13: getStringOrEmpty(off) returns the empty string when the view has no
\* header or no string table, when off = 0, when off >= stringTableSize and
\* when no NUL byte lies in table bytes [off, stringTableSize); otherwise it
\* returns the bytes from off up to the first NUL.  In every case only bytes
\* at offsets in [0, stringTableSize) of the table are read.
C13_StringLookup ==
    call.op = "getStringOrEmpty" =>
      IF strView.header = Null \/ strView.stringTable = Null
      THEN call.value = << >> /\ call.reads = {}
      ELSE LET size == strView.stringTableSize
               table == SubSeq(strView.bytes, 1, size)
               off == call.strOffset
               empty == \/ off = 0
                        \/ off >= size
                        \/ ~\E k \in off..(size - 1) : table[k + 1] = 0
           IN  /\ empty => call.value = << >>
               /\ ~empty => IsStringAt(table, off, call.value)
               /\ call.reads \subseteq 0..(size - 1)

\* A lookup at an offset inside a table that holds no NUL from there on,
\* while the bytes after the table do hold one, returned the empty string
C13_Witness ==
    /\ call.op = "getStringOrEmpty"
    /\ strView.header # Null /\ strView.stringTable # Null
    /\ call.strOffset > 0
    /\ call.strOffset < strView.stringTableSize
    /\ \A k \in (call.strOffset + 1)..strView.stringTableSize : strView.bytes[k] # 0
    /\ \E k \in (strView.stringTableSize + 1)..Len(strView.bytes) : strView.bytes[k] = 0
    /\ call.value = << >>

-----------------------------------------------------------------------------
\* ComponentMask (ECS/Components.h)
\*
\* m_words is a sequence of words.  A word is uint64_t in the code; here it
\* has WordBits bits, and toKey prints it with HexWidth hex digits where the
\* code prints 16.

WordBits == 8

WordMod == 2 ^ WordBits

HexWidth == (WordBits + 3) \div 4

Max(S) == CHOOSE x \in S : \A y \in S : y <= x

RECURSIVE andBits(_, _, _)
andBits(a, b, n) ==
    IF n = 0 THEN 0 ELSE 2 * andBits(a \div 2, b \div 2, n - 1) + (a % 2) * (b % 2)

\* a & b
bitAnd(a, b) == andBits(a, b, WordBits)

RECURSIVE orBits(_, _, _)
orBits(a, b, n) ==
    IF n = 0 THEN 0
    ELSE 2 * orBits(a \div 2, b \div 2, n - 1) + ((a % 2) + (b % 2) - (a % 2) * (b % 2))

\* a | b
bitOr(a, b) == orBits(a, b, WordBits)

\* ~a
bitNot(a) == (WordMod - 1) - a

\* uint64_t(1) << bit
bitShl1(bit) == (2 ^ bit) % WordMod

bitPos(compId) == [wordIdx |-> compId \div WordBits, bit |-> compId % WordBits]

\* m_words.resize(n, 0)
resize(words, n) ==
    IF n <= Len(words) THEN SubSeq(words, 1, n)
    ELSE words \o [j \in 1..(n - Len(words)) |-> 0]

\* ensureBit resizing to `need` whatever the current size
ensureBitExact(words, compId) == resize(words, compId \div WordBits + 1)

ensureBit(words, compId) ==
    LET need == compId \div WordBits + 1
    IN  IF Len(words) < need THEN resize(words, need) ELSE words

\* m_words after set(compId)
maskSet(words, compId) ==
    LET grown == ensureBit(words, compId)
        p == bitPos(compId)
    IN  [grown EXCEPT ![p.wordIdx + 1] = bitOr(@, bitShl1(p.bit))]

maskHas(words, compId) ==
    LET p == bitPos(compId)
    IN  IF p.wordIdx >= Len(words) THEN FALSE
        ELSE bitAnd(words[p.wordIdx + 1], bitShl1(p.bit)) # 0

\* clear zeroing the whole word of compId
maskClearWord(words, compId) ==
    IF ~maskHas(words, compId) THEN words
    ELSE [words EXCEPT ![bitPos(compId).wordIdx + 1] = 0]

\* m_words after clear(compId)
maskClear(words, compId) ==
    IF ~maskHas(words, compId) THEN words
    ELSE LET p == bitPos(compId)
         IN  [words EXCEPT ![p.wordIdx + 1] = bitAnd(@, bitNot(bitShl1(p.bit)))]

\* Word i (0-based) of a mask, 0 when the mask has no such word
wordOrZero(words, i) == IF i < Len(words) THEN words[i + 1] ELSE 0

\* containsAll looping over the words both masks have
containsAllCommonWords(lhs, rhs) ==
    LET n == Min({Len(lhs), Len(rhs)})
    IN  \A i \in 0..(n - 1) :
          bitAnd(wordOrZero(lhs, i), wordOrZero(rhs, i)) = wordOrZero(rhs, i)

containsAll(lhs, rhs) ==
    LET n == Max({Len(lhs), Len(rhs)})
    IN  \A i \in 0..(n - 1) :
          bitAnd(wordOrZero(lhs, i), wordOrZero(rhs, i)) = wordOrZero(rhs, i)

\* containsNone looking at the first word only
containsNoneFirstWord(lhs, rhs) ==
    bitAnd(wordOrZero(lhs, 0), wordOrZero(rhs, 0)) = 0

containsNone(lhs, rhs) ==
    LET n == Max({Len(lhs), Len(rhs)})
    IN  \A i \in 0..(n - 1) : bitAnd(wordOrZero(lhs, i), wordOrZero(rhs, i)) = 0

matches(self, required, excluded) ==
    containsAll(self, required) /\ containsNone(self, excluded)

HexDigits ==
    << "0", "1", "2", "3", "4", "5", "6", "7", "8", "9", "a", "b", "c", "d", "e", "f" >>

\* std::hex, std::setfill('0'), std::setw(width) of one word
RECURSIVE hexWord(_, _)
hexWord(w, width) ==
    IF width = 0 THEN "" ELSE hexWord(w \div 16, width - 1) \o HexDigits[(w % 16) + 1]

\* The loop of toKey from word i (1-based) down to the first
RECURSIVE hexWords(_, _)
hexWords(words, i) ==
    IF i = 0 THEN "" ELSE hexWord(words[i], HexWidth) \o hexWords(words, i - 1)

toKey(words) == IF words = << >> THEN "0" ELSE hexWords(words, Len(words))

\* for (id : ids) m.set(id)
RECURSIVE setAll(_, _)
setAll(words, ids) ==
    IF ids = << >> THEN words ELSE setAll(maskSet(words, Head(ids)), Tail(ids))

\* A loop that flips the bit of each id instead of setting it
RECURSIVE flipAll(_, _)
flipAll(words, ids) ==
    IF ids = << >> THEN words
    ELSE flipAll(IF maskHas(words, Head(ids)) THEN maskClear(words, Head(ids))
                 ELSE maskSet(words, Head(ids)),
                 Tail(ids))

\* fromIds flipping bits, so that a duplicate removes the id again
fromIdsFlipping(ids) == flipAll(EmptyMask, ids)

fromIds(ids) == setAll(EmptyMask, ids)

\* Calls on the masks, one action per member function

Range(f) == { f[x] : x \in DOMAIN f }

MaskFrame ==
    UNCHANGED <<file, pc, outView, outError, ret, evaluated, ni, readPastTable,
                strView, m_nameToId, m_idToName, seen, otherVars>>

MaskSet(m, id) ==
    /\ masks' = [masks EXCEPT ![m] = maskSet(@, id)]
    /\ present' = [present EXCEPT ![m] = @ \cup {id}]
    /\ call' = [op |-> "set", m |-> m, id |-> id]
    /\ MaskFrame

MaskClear(m, id) ==
    /\ masks' = [masks EXCEPT ![m] = maskClear(@, id)]
    /\ present' = [present EXCEPT ![m] = @ \ {id}]
    /\ call' = [op |-> "clear", m |-> m, id |-> id]
    /\ MaskFrame

MaskHas(m, id) ==
    /\ call' = [op |-> "has", m |-> m, id |-> id, value |-> maskHas(masks[m], id)]
    /\ UNCHANGED <<masks, present>>
    /\ MaskFrame

MaskToKey(m) ==
    /\ call' = [op |-> "toKey", m |-> m, value |-> toKey(masks[m])]
    /\ UNCHANGED <<masks, present>>
    /\ MaskFrame

\* m = ComponentMask::fromIds(ids)
MaskFromIds(m, ids) ==
    /\ masks' = [masks EXCEPT ![m] = fromIds(ids)]
    /\ present' = [present EXCEPT ![m] = Range(ids)]
    /\ call' = [op |-> "fromIds", m |-> m, ids |-> ids]
    /\ MaskFrame

\* masks[m].containsAll(masks[rhs])
MaskContainsAll(m, rhs) ==
    /\ call' = [op |-> "containsAll", m |-> m, rhs |-> rhs,
                value |-> containsAll(masks[m], masks[rhs])]
    /\ UNCHANGED <<masks, present>>
    /\ MaskFrame

MaskContainsNone(m, rhs) ==
    /\ call' = [op |-> "containsNone", m |-> m, rhs |-> rhs,
                value |-> containsNone(masks[m], masks[rhs])]
    /\ UNCHANGED <<masks, present>>
    /\ MaskFrame

MaskMatches(m, required, excluded) ==
    /\ call' = [op |-> "matches", m |-> m, required |-> required, excluded |-> excluded,
                value |-> matches(masks[m], masks[required], masks[excluded])]
    /\ UNCHANGED <<masks, present>>
    /\ MaskFrame

MaskInit ==
    /\ LoaderIdle
    /\ OtherIdle
    /\ StringsIdle
    /\ RegistryIdle
    /\ MasksIdle
    /\ call = NoCall

\* One mask under set, clear, has, toKey and fromIds

\* Component IDs in the first three words, 70 standing in the second word as
\* it does with 64-bit words
MaskIds == {0, 1, WordBits - 1, WordBits, WordBits + 6, 2 * WordBits + 1}

MaxIdsLen == 3

\* The IDs of the lists given to fromIds, one in each of the three words
ListIds == {0, WordBits + 6, 2 * WordBits + 1}

IdSeqs == UNION { [1..n -> ListIds] : n \in 0..MaxIdsLen }

MaskNext ==
    \/ \E id \in MaskIds : MaskSet("S", id)
    \/ \E id \in MaskIds : MaskClear("S", id)
    \/ \E id \in MaskIds : MaskHas("S", id)
    \/ MaskToKey("S")
    \/ \E ids \in IdSeqs : MaskFromIds("S", ids)

SpecMask == MaskInit /\ [][MaskNext]_vars

\* Three masks built by set and clear, and the queries between them

MatchIds == {0, 1, 2 * WordBits + 1}

MatchNext ==
    \/ \E m \in MaskNames : \E id \in MatchIds : MaskSet(m, id)
    \/ \E m \in MaskNames : \E id \in MatchIds : MaskClear(m, id)
    \/ MaskContainsAll("S", "R")
    \/ MaskContainsNone("S", "E")
    \/ MaskMatches("S", "R", "E")

SpecMatch == MaskInit /\ [][MatchNext]_vars

\* The component IDs set in a mask, read off its words by arithmetic
IdsOf(words) ==
    { id \in 0..(Len(words) * WordBits - 1) :
        (words[id \div WordBits + 1] \div (2 ^ (id % WordBits))) % 2 = 1 }

\* C14: A.containsAll(B) is true iff every component ID set in B is set in A,
\* whatever the numbers of words of A and B; in particular when A has fewer
\* words than B it is true iff B's words beyond A's are zero and the common
\* words satisfy the inclusion.
C14_ContainsAll ==
    call.op = "containsAll" =>
      LET A == masks[call.m]
          B == masks[call.rhs]
      IN  /\ call.value <=> IdsOf(B) \subseteq IdsOf(A)
          /\ (Len(A) < Len(B) /\ call.value)
               => \A j \in (Len(A) + 1)..Len(B) : B[j] = 0

\* A mask with fewer words than its argument was found to contain it, the
\* argument being non-empty with trailing all-zero words
C14_Witness ==
    /\ call.op = "containsAll"
    /\ call.value
    /\ Len(masks[call.m]) < Len(masks[call.rhs])
    /\ IdsOf(masks[call.rhs]) # {}

-----------------------------------------------------------------------------
\* C15: S.containsNone(E) is true iff no component ID is set in both S and E,
\* and gives the same answer with S and E exchanged; S.matches(R, E) is true
\* iff every ID set in R is set in S and no ID set in E is set in S; both
\* whatever the numbers of words of the masks.
C15_ContainsNoneAndMatches ==
    /\ call.op = "containsNone" =>
         /\ call.value <=> IdsOf(masks[call.m]) \cap IdsOf(masks[call.rhs]) = {}
         /\ call.value <=> containsNone(masks[call.rhs], masks[call.m])
    /\ call.op = "matches" =>
         (call.value <=>
            /\ IdsOf(masks[call.required]) \subseteq IdsOf(masks[call.m])
            /\ IdsOf(masks[call.excluded]) \cap IdsOf(masks[call.m]) = {})

\* A signature matched a non-empty required mask and a non-empty excluded
\* mask that has more words than the signature
C15_Witness ==
    /\ call.op = "matches"
    /\ call.value
    /\ IdsOf(masks[call.required]) # {}
    /\ IdsOf(masks[call.excluded]) # {}
    /\ Len(masks[call.excluded]) > Len(masks[call.m])

-----------------------------------------------------------------------------
\* The elements of a set of numbers in increasing order
RECURSIVE SortedSeq(_)
SortedSeq(S) == IF S = {} THEN << >> ELSE <<Min(S)>> \o SortedSeq(S \ {Min(S)})

\* C16: after any sequence of set and clear calls, toKey() of the mask equals
\* toKey() of the mask that fromIds builds from exactly the IDs still set.
C16_KeyOfIdSet ==
    call.op = "toKey" =>
      call.value = toKey(fromIds(SortedSeq(IdsOf(masks[call.m]))))

-----------------------------------------------------------------------------
\* C17: the mask fromIds(ids) returns, and its key, are those of every other
\* ID sequence with the same set of elements, whatever its order and its
\* duplicates.
C17_FromIdsOrderFree ==
    call.op = "fromIds" =>
      \A other \in IdSeqs :
         Range(other) = Range(call.ids) =>
           /\ fromIds(other) = masks[call.m]
           /\ toKey(fromIds(other)) = toKey(masks[call.m])

\* A mask was built from three IDs, two of them equal, given out of order
C17_Witness ==
    /\ call.op = "fromIds"
    /\ Len(call.ids) = 3
    /\ Cardinality(Range(call.ids)) = 2
    /\ call.ids[1] > call.ids[2]
    /\ Len(masks[call.m]) = 3

-----------------------------------------------------------------------------
\* has() is asked for every ID up to one past the third word
MaxTestedId == 3 * WordBits + 1

\* C18: for every mask and every ID i, has(i) is true iff the most recent set
\* or clear on i was a set (present holds exactly those IDs, and is changed
\* by a set or clear of i at i only); the mask fromIds(ids) returns has
\* exactly the supplied IDs.
C18_HasRoundTrip ==
    /\ \A m \in MaskNames : \A i \in 0..MaxTestedId :
          maskHas(masks[m], i) <=> i \in present[m]
    /\ call.op = "has" => (call.value <=> call.id \in present[call.m])
    /\ call.op = "fromIds" =>
         \A i \in 0..MaxTestedId : maskHas(masks[call.m], i) <=> i \in Range(call.ids)

\* has() answered false for an ID whose word holds other IDs
C18_Witness ==
    /\ call.op = "has"
    /\ ~call.value
    /\ call.id \div WordBits < Len(masks[call.m])
    /\ masks[call.m][call.id \div WordBits + 1] # 0

-----------------------------------------------------------------------------
\* C19: a has() or clear() leaves the number of words as it was, and for an
\* ID beyond the words leaves every word as it was, has() answering false;
\* a set(id) leaves the number of words as it was when the mask already has
\* floor(id / WordBits) + 1 words and otherwise grows it to exactly that
\* many, every new word being zero but for the bit of id.
C19_StorageGrowth ==
    [][ /\ call'.op = "has" =>
             /\ masks' = masks
             /\ call'.id \div WordBits >= Len(masks[call'.m]) => ~call'.value
        /\ call'.op = "clear" =>
             /\ Len(masks'[call'.m]) = Len(masks[call'.m])
             /\ call'.id \div WordBits >= Len(masks[call'.m]) => masks' = masks
        /\ call'.op = "set" =>
             LET old == masks[call'.m]
                 new == masks'[call'.m]
                 need == call'.id \div WordBits + 1
             IN  /\ Len(new) = IF Len(old) < need THEN need ELSE Len(old)
                 /\ \A j \in (Len(old) + 1)..Len(new) :
                       new[j] = IF j = need THEN 2 ^ (call'.id % WordBits) ELSE 0
                 /\ \A j \in 1..Len(old) : j # need => new[j] = old[j]
      ]_vars

\* A clear() of an ID beyond the words of a non-empty mask
C19_Witness ==
    /\ call.op = "clear"
    /\ call.id \div WordBits >= Len(masks[call.m])
    /\ IdsOf(masks[call.m]) # {}

-----------------------------------------------------------------------------
\* ComponentRegistry (ECS/Components.h)
\*
\* A registry is [nameToId, idToName]: nameToId is a function from the
\* registered names to their IDs, idToName the sequence of names by ID.

InvalidID == U32_MAX

ComponentNames == {"Position", "Velocity", "Health", "Sprite"}

\* IDs passed to getName: every ID that can be allocated, one more, and InvalidID
QueriedIds == 0..Cardinality(ComponentNames) \cup {InvalidID}

registry == [nameToId |-> m_nameToId, idToName |-> m_idToName]

\* count()
count(reg) == Len(reg.idToName) % U32Mod

\* m_nameToId.emplace(name, id): no effect when the name is already a key
emplace(map, name, id) ==
    IF name \in DOMAIN map THEN map
    ELSE [n \in DOMAIN map \cup {name} |-> IF n = name THEN id ELSE map[n]]

\* registerComponent without the lookup of the name
registerComponentNoLookup(reg, name) ==
    LET id == Len(reg.idToName) % U32Mod
    IN  [reg |-> [nameToId |-> emplace(reg.nameToId, name, id),
                  idToName |-> Append(reg.idToName, name)],
         id |-> id]

\* The registry after the call and the ID returned
registerComponent(reg, name) ==
    IF name \in DOMAIN reg.nameToId
    THEN [reg |-> reg, id |-> reg.nameToId[name]]
    ELSE LET id == Len(reg.idToName) % U32Mod
         IN  [reg |-> [nameToId |-> emplace(reg.nameToId, name, id),
                       idToName |-> Append(reg.idToName, name)],
              id |-> id]

\* getId returning 0 on a miss
getIdZeroOnMiss(reg, name) ==
    IF name \in DOMAIN reg.nameToId THEN reg.nameToId[name] ELSE 0

getId(reg, name) ==
    IF name \in DOMAIN reg.nameToId THEN reg.nameToId[name] ELSE InvalidID

ensureId(reg, name) ==
    IF name \in DOMAIN reg.nameToId
    THEN [reg |-> reg, id |-> reg.nameToId[name]]
    ELSE registerComponent(reg, name)

getName(reg, id) == IF id < Len(reg.idToName) THEN reg.idToName[id + 1] ELSE ""

RegistryFrame ==
    UNCHANGED <<file, pc, outView, outError, ret, evaluated, ni, readPastTable,
                strView, masks, present, otherVars>>

\* A registerComponent or ensureId call with result r
Registered(op, name, r) ==
    /\ m_nameToId' = r.reg.nameToId
    /\ m_idToName' = r.reg.idToName
    /\ seen' = IF name \in Range(seen) THEN seen ELSE Append(seen, name)
    /\ call' = [op |-> op, name |-> name, value |-> r.id,
                countBefore |-> count(registry), seenBefore |-> name \in Range(seen)]
    /\ RegistryFrame

RegisterComponent(name) ==
    Registered("registerComponent", name, registerComponent(registry, name))

EnsureId(name) ==
    Registered("ensureId", name, ensureId(registry, name))

GetId(name) ==
    /\ call' = [op |-> "getId", name |-> name, value |-> getId(registry, name)]
    /\ UNCHANGED <<m_nameToId, m_idToName, seen>>
    /\ RegistryFrame

GetName(id) ==
    /\ call' = [op |-> "getName", id |-> id, value |-> getName(registry, id)]
    /\ UNCHANGED <<m_nameToId, m_idToName, seen>>
    /\ RegistryFrame

RegistryInit ==
    /\ LoaderIdle
    /\ OtherIdle
    /\ StringsIdle
    /\ MasksIdle
    /\ RegistryIdle
    /\ call = NoCall

RegistryNext ==
    \/ \E name \in ComponentNames : RegisterComponent(name)
    \/ \E name \in ComponentNames : EnsureId(name)
    \/ \E name \in ComponentNames : GetId(name)
    \/ \E id \in QueriedIds : GetName(id)

SpecRegistry == RegistryInit /\ [][RegistryNext]_vars

\* The place of name x in the first-seen order, counted from 0
FirstSeenIndex(x) == (CHOOSE i \in 1..Len(seen) : seen[i] = x) - 1

\* C20: a registerComponent or ensureId of a name not seen before returns the
\* component count before the call and raises the count by one; of a name
\* seen before it returns the name's place in the first-seen order, the ID
\* of its first registration, and leaves the count as it was.  At all times
\* the IDs are exactly 0..count-1 in first-seen order: the name first seen
\* i-th has ID i-1 by getId and is the name of ID i-1 by getName, and no
\* other name has an ID.
C20_RegistryStableIds ==
    /\ call.op \in {"registerComponent", "ensureId"} =>
         IF call.seenBefore
         THEN /\ call.value = FirstSeenIndex(call.name)
              /\ count(registry) = call.countBefore
         ELSE /\ call.value = call.countBefore
              /\ count(registry) = call.countBefore + 1
    /\ count(registry) = Len(seen)
    /\ DOMAIN m_nameToId = Range(seen)
    /\ \A i \in 1..Len(seen) :
          /\ getId(registry, seen[i]) = i - 1
          /\ getName(registry, i - 1) = seen[i]

\* With three names registered, registerComponent of the first of them
\* returned 0
C20_Witness ==
    /\ call.op = "registerComponent"
    /\ call.seenBefore
    /\ call.value = 0
    /\ count(registry) = 3

-----------------------------------------------------------------------------
\* C21: getId of a name never registered is InvalidID; getName of every id >=
\* count, InvalidID included, is the empty string; getName(getId(n)) = n for
\* every registered name n and getId(getName(id)) = id for every id < count;
\* the value a getId or getName call returned is that lookup; and a getId or
\* getName call changes neither mapping (hence not the count).
C21_LookupsTotalPureInverse ==
    /\ [](/\ \A n \in ComponentNames \ Range(seen) : getId(registry, n) = InvalidID
          /\ \A id \in QueriedIds : id >= count(registry) => getName(registry, id) = ""
          /\ \A n \in Range(seen) : getName(registry, getId(registry, n)) = n
          /\ \A id \in 0..(count(registry) - 1) :
                getId(registry, getName(registry, id)) = id
          /\ call.op = "getId" =>
                call.value = IF call.name \in Range(seen)
                             THEN FirstSeenIndex(call.name) ELSE InvalidID
          /\ call.op = "getName" =>
                call.value = IF call.id < Len(seen) THEN seen[call.id + 1] ELSE "")
    /\ [][call'.op \in {"getId", "getName"} =>
            /\ m_nameToId' = m_nameToId
            /\ m_idToName' = m_idToName]_vars

\* With two names registered, getId of a third returned InvalidID
C21_Witness ==
    /\ call.op = "getId"
    /\ call.name \notin Range(seen)
    /\ call.value = InvalidID
    /\ count(registry) = 2

-----------------------------------------------------------------------------
\* The node-graph validation of VerifyLoadSModel (Sample/src/VerifyLoadSModel.cpp)
\*
\* A 4x4 matrix is modelled as a word over the node numbers: the identity is
\* the empty word and the product is concatenation, so that two products are
\* equal only when they multiply the same matrices in the same order.

Mat4Identity == << >>

\* b * a
mulMat4Reversed(a, b) == b \o a

\* a * b
mulMat4(a, b) == a \o b

\* The inputs: node tables of up to MaxNodes nodes

MaxNodes == 4

\* Node i follows the parent indices p for at most k steps to a root
RECURSIVE ReachesRoot(_, _, _)
ReachesRoot(p, i, k) ==
    IF i = U32_MAX THEN TRUE
    ELSE IF k = 0 THEN FALSE
    ELSE ReachesRoot(p, p[i], k - 1)

\* The parent indices of the forests on nodes 0..n-1
ParentMaps(n) ==
    { p \in [0..(n - 1) -> {U32_MAX} \cup 0..(n - 1)] :
        \A i \in 0..(n - 1) : ReachesRoot(p, i, n + 1) }

\* The children of node i under parent indices p, in increasing order
ChildrenUnder(p, i) == SortedSeq({ c \in DOMAIN p : p[c] = i })

\* The node-child-index table of p: the child lists of nodes 0..i-1
RECURSIVE ChildSlices(_, _)
ChildSlices(p, i) ==
    IF i = 0 THEN << >> ELSE ChildSlices(p, i - 1) \o ChildrenUnder(p, i - 1)

\* The product of the local matrices from the root of node i down to node i
RECURSIVE LocalsDownTo(_, _, _)
LocalsDownTo(p, i, distinct) ==
    IF i = U32_MAX THEN Mat4Identity
    ELSE mulMat4(LocalsDownTo(p, p[i], distinct), IF distinct THEN <<i>> ELSE Mat4Identity)

\* The asset of the forest p on n nodes.  Every node draws the one primitive.
\*   distinct: every node has a local matrix of its own (else all identity)
\*   resolved: globalMatrix holds the resolved transform (else the default identity)
ForestAsset(p, n, distinct, resolved) ==
    [nodes |->
       [j \in 1..n |->
          LET i == j - 1
              kids == ChildrenUnder(p, i)
          IN  [parentIndex |-> p[i],
               firstChildIndex |-> IF kids = << >> THEN U32_MAX ELSE Len(ChildSlices(p, i)),
               childCount |-> Len(kids),
               firstPrimitiveIndex |-> i,
               primitiveCount |-> 1,
               localMatrix |-> IF distinct THEN <<i>> ELSE Mat4Identity,
               globalMatrix |-> IF resolved THEN LocalsDownTo(p, i, distinct)
                                ELSE Mat4Identity]],
     nodePrimitiveIndices |-> [j \in 1..n |-> 0],
     nodeChildIndices |-> ChildSlices(p, n),
     primCount |-> 1]

ForestAssets ==
    UNION { { ForestAsset(p, n, d, r) : p \in ParentMaps(n), d \in BOOLEAN, r \in BOOLEAN } :
            n \in 1..MaxNodes }

\* Node 0 and node 1 are each other's parent and only child: no root
CycleAsset ==
    [nodes |->
       << [parentIndex |-> 1, firstChildIndex |-> 0, childCount |-> 1,
           firstPrimitiveIndex |-> 0, primitiveCount |-> 1,
           localMatrix |-> <<0>>, globalMatrix |-> Mat4Identity],
          [parentIndex |-> 0, firstChildIndex |-> 1, childCount |-> 1,
           firstPrimitiveIndex |-> 1, primitiveCount |-> 1,
           localMatrix |-> <<1>>, globalMatrix |-> Mat4Identity] >>,
     nodePrimitiveIndices |-> <<0, 0>>,
     nodeChildIndices |-> <<1, 0>>,
     primCount |-> 1]

\* An asset without nodes
NoNodesAsset ==
    [nodes |-> << >>, nodePrimitiveIndices |-> << >>, nodeChildIndices |-> << >>,
     primCount |-> 1]

\* The assets that differ from asset a in one field of one node or in one
\* entry of an index table
OneFieldChanged(a) ==
    LET n == Len(a.nodes)
    IN  { [a EXCEPT !.nodes[j].parentIndex = v] :
            j \in 1..n, v \in 0..n \cup {U32_MAX} }
        \cup
        { [a EXCEPT !.nodes[j].firstChildIndex = v] : j \in 1..n, v \in {U32_MAX, 0, 1} }
        \cup
        { [a EXCEPT !.nodes[j].childCount = v] : j \in 1..n, v \in {0, 1, 2, U32_MAX} }
        \cup
        { [a EXCEPT !.nodes[j].firstPrimitiveIndex = v] : j \in 1..n, v \in {n, U32_MAX} }
        \cup
        { [a EXCEPT !.nodes[j].primitiveCount = v] : j \in 1..n, v \in {0, 2, U32_MAX} }
        \cup
        { [a EXCEPT !.nodes[j].globalMatrix = v] : j \in 1..n, v \in {<<n>>} }
        \cup
        { [a EXCEPT !.nodeChildIndices[k] = v] :
            k \in 1..Len(a.nodeChildIndices), v \in 0..n \cup {U32_MAX} }
        \cup
        { [a EXCEPT !.nodePrimitiveIndices[k] = 1] : k \in 1..n }

\* Changes are made to the resolved forests, with distinct local matrices, of
\* one node less than MaxNodes
ChangedAssets ==
    UNION { UNION { OneFieldChanged(ForestAsset(p, n, TRUE, TRUE)) : p \in ParentMaps(n) } :
            n \in 1..(MaxNodes - 1) }

VerifyAssets == ForestAssets \cup ChangedAssets \cup {CycleAsset, NoNodesAsset}

\* The verifier's view of the asset (0-based, as in the source)
nodeCount == Len(modelAsset.nodes)

nodeAt(i) == modelAsset.nodes[i + 1]

ncAt(k) == modelAsset.nodeChildIndices[k + 1]

npAt(k) == modelAsset.nodePrimitiveIndices[k + 1]

ncSize == Len(modelAsset.nodeChildIndices)

npSize == Len(modelAsset.nodePrimitiveIndices)

\* The per-node bounds checks of the first loop: TRUE when node i passes all of them
parentIndexOk(n) == ~(n.parentIndex # U32_MAX /\ n.parentIndex >= nodeCount)

\* The child range is compared in size_t: the sum does not wrap
childRangeOk(n) == ~(n.firstChildIndex = U32_MAX \/ n.firstChildIndex + n.childCount > ncSize)

\* The loop over the child entries breaks at the first bad entry
childEntriesOk(i, n) ==
    \A k \in 0..(n.childCount - 1) :
        LET c == ncAt(n.firstChildIndex + k)
        IN  ~(c >= nodeCount) /\ ~(nodeAt(c).parentIndex # i)

\* The primitive range is summed in uint32: the sum wraps
primRangeOk(n) == ~((n.firstPrimitiveIndex + n.primitiveCount) % U32Mod > npSize)

\* The loop over the primitive entries stops at the end of the table
primEntriesOk(n) ==
    \A k \in 0..(Min({n.primitiveCount, npSize - n.firstPrimitiveIndex}) - 1) :
        ~(npAt(n.firstPrimitiveIndex + k) >= modelAsset.primCount)

nodeBoundsOk(i) ==
    LET n == nodeAt(i)
    IN  /\ parentIndexOk(n)
        /\ (n.childCount > 0 => (childRangeOk(n) /\ childEntriesOk(i, n)))
        /\ (n.primitiveCount > 0 => (primRangeOk(n) /\ primEntriesOk(n)))

\* The visited-set check at the head of dfs
neverVisited(vis, idx) == FALSE

visitedAlready(vis, idx) == vis[idx + 1] # 0

\* The part of dfs(idx, parent) before its loop over the children: it marks
\* the node, computes its expected global, and enters the loop (a frame on the
\* stack) only when the child range fits the child-index table.
dfsEnter(st, idx, parent) ==
    IF idx >= nodeCount THEN st
    ELSE IF visitedAlready(st.visited, idx) THEN st
    ELSE LET n == nodeAt(idx)
             marked == [st EXCEPT !.visited[idx + 1] = 1,
                                  !.expectedGlobals[idx + 1] = mulMat4(parent, n.localMatrix),
                                  !.computed[idx + 1] = @ + 1]
         IN  IF n.childCount = 0 \/ n.firstChildIndex = U32_MAX THEN marked
             ELSE IF n.firstChildIndex + n.childCount > ncSize THEN marked
             ELSE [marked EXCEPT !.dfsStack = Append(@, [idx |-> idx, k |-> 0])]

dfsState ==
    [visited |-> visited, expectedGlobals |-> expectedGlobals,
     computed |-> computed, dfsStack |-> dfsStack]

VerifyFrame == UNCHANGED <<earlierVars, call, meshVars, cookVars, tableVars, renderVars>>

becomes(st) ==
    /\ visited' = st.visited
    /\ expectedGlobals' = st.expectedGlobals
    /\ computed' = st.computed
    /\ dfsStack' = st.dfsStack

\* `if (!model->nodes.empty())`, the declarations, and the construction of
\* expectedGlobals and visited
VerifyBegin ==
    /\ vpc = "Begin"
    /\ IF modelAsset.nodes = << >>
       THEN /\ vpc' = "NoNodes"
            /\ UNCHANGED <<visited, expectedGlobals, computed>>
       ELSE /\ vpc' = "Bounds"
            /\ visited' = [j \in 1..nodeCount |-> 0]
            /\ expectedGlobals' = [j \in 1..nodeCount |-> Mat4Identity]
            /\ computed' = [j \in 1..nodeCount |-> 0]
    /\ UNCHANGED <<modelAsset, vi, dfsStack, nodeOk>>
    /\ VerifyFrame

\* One iteration of the bounds-check loop, or its exit
CheckNodeBounds ==
    /\ vpc = "Bounds"
    /\ IF vi < nodeCount
       THEN /\ nodeOk' = (nodeOk /\ nodeBoundsOk(vi))
            /\ vi' = vi + 1
            /\ vpc' = vpc
       ELSE /\ vi' = 0
            /\ vpc' = "Roots"
            /\ nodeOk' = nodeOk
    /\ UNCHANGED <<modelAsset, dfsStack, visited, expectedGlobals, computed>>
    /\ VerifyFrame

\* One iteration of the loop over the roots, up to the point where dfs loops
\* over the root's children, or the exit of the loop
VisitRoot ==
    /\ vpc = "Roots"
    /\ dfsStack = << >>
    /\ IF vi < nodeCount
       THEN /\ IF nodeAt(vi).parentIndex = U32_MAX
               THEN becomes(dfsEnter(dfsState, vi, Mat4Identity))
               ELSE UNCHANGED <<visited, expectedGlobals, computed, dfsStack>>
            /\ vi' = vi + 1
            /\ vpc' = vpc
       ELSE /\ vi' = 0
            /\ vpc' = "Compare"
            /\ UNCHANGED <<visited, expectedGlobals, computed, dfsStack>>
    /\ UNCHANGED <<modelAsset, nodeOk>>
    /\ VerifyFrame

\* One iteration of the loop over the children in the innermost call of dfs,
\* or the return from that call
DfsStep ==
    /\ vpc = "Roots"
    /\ dfsStack # << >>
    /\ LET top == dfsStack[Len(dfsStack)]
           n == nodeAt(top.idx)
       IN  IF top.k < n.childCount
           THEN LET c == ncAt(n.firstChildIndex + top.k)
                    advanced == [dfsState EXCEPT !.dfsStack[Len(dfsStack)].k = @ + 1]
                IN  becomes(dfsEnter(advanced, c, expectedGlobals[top.idx + 1]))
           ELSE becomes([dfsState EXCEPT !.dfsStack = SubSeq(@, 1, Len(@) - 1)])
    /\ UNCHANGED <<modelAsset, vpc, vi, nodeOk>>
    /\ VerifyFrame

\* The comparison loop: unvisited nodes are skipped
CompareGlobals ==
    /\ vpc = "Compare"
    /\ nodeOk' = (nodeOk /\ \A i \in 0..(nodeCount - 1) :
                      visited[i + 1] # 0 => expectedGlobals[i + 1] = nodeAt(i).globalMatrix)
    /\ vpc' = "Done"
    /\ UNCHANGED <<modelAsset, vi, dfsStack, visited, expectedGlobals, computed>>
    /\ VerifyFrame

\* `if (nodeOk)`: the report
reportsOk == vpc = "Done" /\ nodeOk

VerifyInit ==
    /\ EarlierIdle
    /\ MeshIdle
    /\ CookIdle
    /\ TableIdle
    /\ RenderIdle
    /\ call = NoCall
    /\ modelAsset \in VerifyAssets
    /\ vpc = "Begin"
    /\ vi = 0
    /\ dfsStack = << >>
    /\ visited = << >>
    /\ expectedGlobals = << >>
    /\ nodeOk = TRUE
    /\ computed = << >>

VerifyNext ==
    \/ VerifyBegin
    \/ CheckNodeBounds
    \/ VisitRoot
    \/ DfsStep
    \/ CompareGlobals

SpecVerify == VerifyInit /\ [][VerifyNext]_vars

\* The verifier is one sequential function: a step that can be taken is taken
SpecVerifyFair == SpecVerify /\ WF_vars(VerifyNext)

\* The parent index of every node of asset a
ParentsOf(a) == [i \in 0..(Len(a.nodes) - 1) |-> a.nodes[i + 1].parentIndex]

\* The entries of node i's child slice in asset a
SliceOf(a, i) ==
    LET n == a.nodes[i + 1]
    IN  IF n.childCount = 0 THEN << >>
        ELSE SubSeq(a.nodeChildIndices, n.firstChildIndex + 1, n.firstChildIndex + n.childCount)

\* Asset a is a valid forest: parent indices are in range and lead to a root,
\* and every node's child slice lists exactly the nodes whose parent it is
ValidForest(a) ==
    LET n == Len(a.nodes)
        p == ParentsOf(a)
    IN  /\ n >= 1
        /\ \A i \in 0..(n - 1) : p[i] \in {U32_MAX} \cup 0..(n - 1)
        /\ \A i \in 0..(n - 1) : ReachesRoot(p, i, n + 1)
        /\ \A i \in 0..(n - 1) :
              LET nd == a.nodes[i + 1]
              IN  /\ nd.childCount = Cardinality({ c \in 0..(n - 1) : p[c] = i })
                  /\ nd.childCount > 0 =>
                        /\ nd.firstChildIndex + nd.childCount <= Len(a.nodeChildIndices)
                        /\ Range(SliceOf(a, i)) = { c \in 0..(n - 1) : p[c] = i }

\* local(root) * ... * local(i): the locals on the path from the root of
\* node i down to node i, the root's first
RECURSIVE PathProduct(_, _)
PathProduct(a, i) ==
    IF i = U32_MAX THEN << >>
    ELSE PathProduct(a, a.nodes[i + 1].parentIndex) \o a.nodes[i + 1].localMatrix

\* C22: over a valid forest, once the loop over the roots has finished, every
\* node has been reached and its expected global transform is the ordered
\* product of the local transforms on the path from its root down to it, with
\* identity as the parent of a root; during the traversal every node visited
\* so far already has that value.  The product depends on the path alone, not
\* on the position of the nodes in the table, and is identity when every
\* local is identity.
C22_GlobalIsPathProduct ==
    (vpc \in {"Roots", "Compare", "Done"} /\ ValidForest(modelAsset)) =>
        /\ \A i \in 0..(nodeCount - 1) :
              visited[i + 1] # 0 => expectedGlobals[i + 1] = PathProduct(modelAsset, i)
        /\ vpc \in {"Compare", "Done"} => \A i \in 0..(nodeCount - 1) : visited[i + 1] # 0
        /\ (\A i \in 0..(nodeCount - 1) : nodeAt(i).localMatrix = Mat4Identity) =>
              \A i \in 0..(nodeCount - 1) : expectedGlobals[i + 1] = Mat4Identity

\* The traversal has finished on a valid forest in which a node two levels
\* below its root is stored before its parent, with distinct local matrices
C22_Witness ==
    /\ vpc = "Done"
    /\ ValidForest(modelAsset)
    /\ \E i \in 0..(nodeCount - 1) :
          LET p == nodeAt(i).parentIndex
          IN  /\ p # U32_MAX
              /\ p > i
              /\ nodeAt(p).parentIndex # U32_MAX
              /\ expectedGlobals[i + 1] =
                    <<nodeAt(p).parentIndex, p, i>>

\* C23: on every node table -- also one whose child indices form a cycle,
\* list a node under two parents or point out of range -- the traversal
\* computes each node's transform at most once, its recursion is never deeper
\* than the number of nodes, and the verification reaches its end.
C23_TraversalTerminates ==
    /\ [](/\ \A j \in 1..Len(computed) : computed[j] <= 1
          /\ Len(dfsStack) <= nodeCount)
    /\ <>(vpc \in {"Done", "NoNodes"})

\* The verification has finished on a table in which a visited node lists
\* its own parent as a child (a cycle below a root)
C23_Witness ==
    /\ vpc = "Done"
    /\ \E i \in 0..(nodeCount - 1) :
          /\ visited[i + 1] # 0
          /\ nodeAt(i).childCount > 0
          /\ childRangeOk(nodeAt(i))
          /\ \E c \in Range(SliceOf(modelAsset, i)) :
                c < nodeCount /\ visited[c + 1] # 0 /\ nodeAt(i).parentIndex = c

\* C24: when the verification has finished and some node was not reached
\* from any root, the node graph is not reported as OK.
C24_UnreachedFlagged ==
    (vpc = "Done" /\ \E i \in 0..(nodeCount - 1) : visited[i + 1] = 0) => ~reportsOk

\* The two-node cycle 0 <-> 1: no node is a root, no node is visited, and
\* the node graph is reported as OK
C24_CycleReportedOk ==
    /\ modelAsset = CycleAsset
    /\ vpc = "Done"
    /\ \A i \in 0..(nodeCount - 1) : visited[i + 1] = 0
    /\ reportsOk

-----------------------------------------------------------------------------
\* LoadSMeshV0FromFile (Engine/src/SMeshLoader.cpp)

\* sizeof(SMeshHeaderV0): ten 4-byte fields and two float[3]
SMeshHeaderSize == 48

\* The one vertex stride of v0
SMeshStrideV0 == 32

MeshSizes == {0, SMeshHeaderSize - 1, SMeshHeaderSize, SMeshHeaderSize + 32,
              SMeshHeaderSize + 38, SMeshHeaderSize + 44}

MeshHeaders ==
    [vertexCount : {0, 1, U32_MAX},
     indexCount : {0, 3, U32_MAX},
     vertexStride : {0, SMeshStrideV0, SMeshStrideV0 + 1},
     indexFormat : {0, 1, 2, U32_MAX},
     vertexDataOffset : {0, SMeshHeaderSize, SMeshHeaderSize + 1, U32_MAX},
     indexDataOffset : {SMeshHeaderSize, SMeshHeaderSize + 32, SMeshHeaderSize + 33, U32_MAX}]

MeshFiles ==
    {NoMeshFile} \cup [exists : {TRUE}, size : MeshSizes, hdr : MeshHeaders]

\* std::fread(dst, 1, bytes, f) with the file position at pos: the number of
\* bytes read
fread(f, pos, bytes) == IF pos >= f.size THEN 0 ELSE Min({bytes, f.size - pos})

fread_exact(f, pos, bytes) == fread(f, pos, bytes) = bytes

\* size_t is 64 bits wide
vertexBytesOf(hdr) == (hdr.vertexCount * hdr.vertexStride) % U64Mod

indexBytesOf(hdr) == (hdr.indexCount * (IF hdr.indexFormat = 0 THEN 2 ELSE 4)) % U64Mod

rangesExceedNever(hdr, fsize) == FALSE

\* The range check on the two data blocks
rangesExceed(hdr, fsize) ==
    \/ (hdr.vertexDataOffset + vertexBytesOf(hdr)) % U64Mod > fsize
    \/ (hdr.indexDataOffset + indexBytesOf(hdr)) % U64Mod > fsize

NoRead == [from |-> 0, bytes |-> 0, done |-> FALSE]

\* The result of the call and the two data reads it made
LoadSMeshV0FromFile(f) ==
    LET failed == [ret |-> FALSE, vertexRead |-> NoRead, indexRead |-> NoRead]
    IN  IF ~f.exists THEN failed
        ELSE IF ~fread_exact(f, 0, SMeshHeaderSize) THEN failed
        ELSE IF f.hdr.vertexStride # SMeshStrideV0 THEN failed
        ELSE IF f.hdr.indexFormat > 1 THEN failed
        ELSE IF rangesExceed(f.hdr, f.size) THEN failed
        ELSE LET vRead == [from |-> f.hdr.vertexDataOffset, bytes |-> vertexBytesOf(f.hdr),
                           done |-> TRUE]
                 iRead == [from |-> f.hdr.indexDataOffset, bytes |-> indexBytesOf(f.hdr),
                           done |-> TRUE]
             IN  IF ~fread_exact(f, vRead.from, vRead.bytes)
                 THEN [failed EXCEPT !.vertexRead = vRead]
                 ELSE IF ~fread_exact(f, iRead.from, iRead.bytes)
                 THEN [failed EXCEPT !.vertexRead = vRead, !.indexRead = iRead]
                 ELSE [ret |-> TRUE, vertexRead |-> vRead, indexRead |-> iRead]

LoadSMesh ==
    /\ call = NoCall
    /\ call' = [op |-> "LoadSMeshV0FromFile"] @@ LoadSMeshV0FromFile(meshFile)
    /\ UNCHANGED <<earlierVars, verifyVars, meshVars, cookVars, tableVars, renderVars>>

MeshInit ==
    /\ EarlierIdle
    /\ VerifyIdle
    /\ CookIdle
    /\ TableIdle
    /\ RenderIdle
    /\ call = NoCall
    /\ meshFile \in MeshFiles

MeshNext == LoadSMesh

SpecMesh == MeshInit /\ [][MeshNext]_vars

\* C25: LoadSMeshV0FromFile returns false when the file is shorter than the
\* header, when vertexStride is not 32, when indexFormat is neither 0 nor 1,
\* or when the vertex block or the index block (2 bytes per index for format
\* 0, 4 for format 1) ends after the end of the file; when it returns true,
\* both blocks were read, each in full and from inside the file.
C25_SMeshRejectsBadRanges ==
    call.op = "LoadSMeshV0FromFile" =>
        LET f == meshFile
            indexSize == IF f.hdr.indexFormat = 0 THEN 2 ELSE 4
        IN  /\ ~f.exists => ~call.ret
            /\ f.exists =>
                  /\ f.size < SMeshHeaderSize => ~call.ret
                  /\ f.hdr.vertexStride # 32 => ~call.ret
                  /\ f.hdr.indexFormat \notin {0, 1} => ~call.ret
                  /\ f.hdr.vertexDataOffset + f.hdr.vertexCount * f.hdr.vertexStride > f.size
                        => ~call.ret
                  /\ f.hdr.indexDataOffset + f.hdr.indexCount * indexSize > f.size
                        => ~call.ret
                  /\ call.ret =>
                        /\ call.vertexRead.done
                        /\ call.vertexRead.from = f.hdr.vertexDataOffset
                        /\ call.vertexRead.bytes = f.hdr.vertexCount * 32
                        /\ call.vertexRead.from + call.vertexRead.bytes <= f.size
                        /\ call.indexRead.done
                        /\ call.indexRead.from = f.hdr.indexDataOffset
                        /\ call.indexRead.bytes = f.hdr.indexCount * indexSize
                        /\ call.indexRead.from + call.indexRead.bytes <= f.size

\* A file with one vertex and three 16-bit indices was loaded
C25_Witness ==
    /\ call.op = "LoadSMeshV0FromFile"
    /\ call.ret
    /\ meshFile.hdr.vertexCount = 1
    /\ meshFile.hdr.indexCount = 3
    /\ meshFile.hdr.indexFormat = 0
    /\ call.indexRead.from + call.indexRead.bytes = meshFile.size

-----------------------------------------------------------------------------
\* The cooker's StringTable (Engine/tools/GltfToSmodel/GltfToSmodel.cpp)

\* StringTable::add on a table holding data: the table afterwards and the
\* offset returned
add(data, s) ==
    IF s = << >> THEN [data |-> data, off |-> 0]
    ELSE [data |-> data \o s \o <<0>>, off |-> Len(data) % U32Mod]

\* The view the loader builds over a file whose string table is data:
\* stringTableSize is the header field the cooker wrote
viewOfTable(data) ==
    [header |-> 0, stringTable |-> 0, stringTableSize |-> Len(data) % U32Mod, bytes |-> data]

MaxAdds == 3

\* A string that fills the table up to one byte below the range of uint32_t
LongString == [k \in 1..(U32Mod - 3) |-> 97]

AddStrings == { << >>, <<97>>, <<98, 97>>, LongString }

TableFrame == UNCHANGED <<earlierVars, verifyVars, meshVars, cookVars, renderVars>>

TableAdd ==
    /\ Len(added) < MaxAdds
    /\ \E s \in AddStrings :
          LET r == add(strings, s)
          IN  /\ strings' = r.data
              /\ added' = Append(added, [s |-> s, off |-> r.off])
              /\ call' = [op |-> "add", s |-> s, off |-> r.off]
    /\ TableFrame

\* The loader looks up an offset that add returned
TableLookUp ==
    /\ \E k \in 1..Len(added) :
          call' = [op |-> "getStringOrEmpty", strOffset |-> added[k].off,
                   value |-> getStringOrEmpty(viewOfTable(strings), added[k].off).value]
    /\ UNCHANGED tableVars
    /\ TableFrame

TableInit ==
    /\ EarlierIdle
    /\ VerifyIdle
    /\ MeshIdle
    /\ CookIdle
    /\ RenderIdle
    /\ TableIdle
    /\ call = NoCall

TableNext ==
    \/ TableAdd
    \/ TableLookUp

SpecTable == TableInit /\ [][TableNext]_vars

\* C28: the table always has a NUL at byte 0; add("") returns 0 and appends
\* nothing; add(s) for a non-empty s returns an offset > 0 at which the
\* table holds s followed by NUL, and changes no earlier byte; and for every
\* offset returned by add so far, getStringOrEmpty on the table returns the
\* string that was added.
C28_StringTableRoundTrip ==
    /\ [](/\ strings[1] = 0
          /\ \A k \in 1..Len(added) :
                /\ added[k].s = << >> => added[k].off = 0
                /\ added[k].s # << >> =>
                      /\ added[k].off > 0
                      /\ IsStringAt(strings, added[k].off, added[k].s)
                /\ getStringOrEmpty(viewOfTable(strings), added[k].off).value = added[k].s)
    /\ [][call'.op = "add" =>
            /\ SubSeq(strings', 1, Len(strings)) = strings
            /\ call'.s = << >> => strings' = strings]_vars

\* Two short strings were added and both are found at their offsets
C28_ShortStringsFound ==
    /\ Len(added) = 3
    /\ added[1].s = <<97>>
    /\ added[2].s = << >>
    /\ added[3].s = <<98, 97>>
    /\ call.op = "getStringOrEmpty"
    /\ call.strOffset = added[3].off
    /\ call.value = <<98, 97>>

-----------------------------------------------------------------------------
\* The cooker: node emission and file layout
\* (Engine/tools/GltfToSmodel/GltfToSmodel.cpp)
\*
\* A scene is what the cooker has when it reaches EmitNode: the aiNode tree
\* (nodes are numbered 0..n-1 in the scene, mRootNode is 0; mChildren,
\* mMeshes and mName per node), meshIndexToPrimIndex, and the sizes of the
\* tables built before: meshRecords, primRecords, materialRecords,
\* textureRecords and the blob.

MaxSceneNodes == 4

\* The trees on nodes 0..n-1 with root 0, as parent maps
SceneParents(n) ==
    { p \in ParentMaps(n) : p[0] = U32_MAX /\ \A i \in 1..(n - 1) : p[i] # U32_MAX }

Reverse(q) == [k \in 1..Len(q) |-> q[Len(q) + 1 - k]]

\* mMeshes of scene node i, by pattern
MeshesOfNode(pattern, i) ==
    CASE pattern = "none" -> << >>
      [] pattern = "one" -> <<i % 3>>
      [] pattern = "many" -> <<2, i % 2, 5>>

\* The tables built before EmitNode, by size
EarlierTables ==
    { [meshRecords |-> 1, primRecords |-> 2, materialRecords |-> 1, textureRecords |-> 0,
       blob |-> 156],
      [meshRecords |-> 2, primRecords |-> 2, materialRecords |-> 1, textureRecords |-> 1,
       blob |-> BaseBlobSize],
      [meshRecords |-> 2, primRecords |-> 2, materialRecords |-> 1, textureRecords |-> 1,
       blob |-> U32Mod],
      [meshRecords |-> 2, primRecords |-> 2, materialRecords |-> U32Mod \div MatRecSize,
       textureRecords |-> 1, blob |-> BaseBlobSize] }

Scenes ==
    UNION { { [mNumNodes |-> n,
               mChildren |-> [i \in 0..(n - 1) |->
                                IF rev THEN Reverse(ChildrenUnder(p, i))
                                ELSE ChildrenUnder(p, i)],
               mMeshes |-> [i \in 0..(n - 1) |-> MeshesOfNode(pat, i)],
               mName |-> [i \in 0..(n - 1) |-> IF i % 2 = 0 THEN << >> ELSE <<97>>],
               meshIndexToPrimIndex |-> <<0, -1, 1>>,
               tables |-> t] :
              p \in SceneParents(n), rev \in BOOLEAN, pat \in {"none", "one", "many"},
              t \in EarlierTables } :
            n \in 1..MaxSceneNodes }

\* sm::SModelNodeRecord{}
ZeroNodeRecord ==
    [nameStrOffset |-> 0, parentIndex |-> 0, firstChildIndex |-> 0, childCount |-> 0,
     firstPrimitiveIndex |-> 0, primitiveCount |-> 0]

\* The primitive indices appended for scene node n
primIdxOf(sc, aiMeshIdx) ==
    IF aiMeshIdx < Len(sc.meshIndexToPrimIndex)
    THEN sc.meshIndexToPrimIndex[aiMeshIdx + 1] ELSE -1

nodePrims(sc, n) ==
    SelectSeq([k \in 1..Len(sc.mMeshes[n]) |-> primIdxOf(sc, sc.mMeshes[n][k])],
              LAMBDA x : x >= 0)

\* EmitNode(n, parentIndex) on the cooker state st = [nodeRecords,
\* nodePrimitiveIndices, nodeChildIndices, strings, added]: the state
\* afterwards and the index returned.  EmitChildren is its loop over the
\* children from child ci on.
RECURSIVE EmitNode(_, _, _, _)
RECURSIVE EmitChildrenUnstored(_, _, _, _, _, _)
RECURSIVE EmitChildren(_, _, _, _, _, _)
\* The loop without the store into the reserved slice
EmitChildrenUnstored(sc, st, n, ci, start, thisIndex) ==
    IF ci >= Len(sc.mChildren[n]) THEN st
    ELSE EmitChildrenUnstored(sc, EmitNode(sc, st, sc.mChildren[n][ci + 1], thisIndex).st,
                              n, ci + 1, start, thisIndex)

EmitChildren(sc, st, n, ci, start, thisIndex) ==
    IF ci >= Len(sc.mChildren[n]) THEN st
    ELSE LET r == EmitNode(sc, st, sc.mChildren[n][ci + 1], thisIndex)
             stored == [r.st EXCEPT !.nodeChildIndices[start + ci + 1] = r.index]
         IN  EmitChildren(sc, stored, n, ci + 1, start, thisIndex)

EmitNode(sc, st, n, parentIndex) ==
    IF n = Null THEN [st |-> st, index |-> U32_MAX]
    ELSE LET thisIndex == Len(st.nodeRecords) % U32Mod
             named == add(st.strings, sc.mName[n])
             prims == nodePrims(sc, n)
             numChildren == Len(sc.mChildren[n])
             rec == [nameStrOffset |-> named.off,
                     parentIndex |-> parentIndex,
                     firstPrimitiveIndex |-> Len(st.nodePrimitiveIndices) % U32Mod,
                     primitiveCount |-> Len(prims),
                     firstChildIndex |-> IF numChildren > 0
                                         THEN Len(st.nodeChildIndices) % U32Mod ELSE U32_MAX,
                     childCount |-> numChildren]
             reserved ==
                 [nodeRecords |-> Append(st.nodeRecords, ZeroNodeRecord),
                  nodePrimitiveIndices |-> st.nodePrimitiveIndices \o prims,
                  nodeChildIndices |->
                      st.nodeChildIndices \o [k \in 1..numChildren |-> U32_MAX],
                  strings |-> named.data,
                  added |-> Append(st.added, [s |-> sc.mName[n], off |-> named.off])]
             emitted == IF numChildren > 0
                        THEN EmitChildren(sc, reserved, n, 0, rec.firstChildIndex, thisIndex)
                        ELSE reserved
         IN  [st |-> [emitted EXCEPT !.nodeRecords[thisIndex + 1] = rec],
              index |-> thisIndex]

\* The header computed from the sizes of the tables
buildHeader(t) ==
    LET meshesOffset == HeaderSize
        primitivesOffset == (meshesOffset + t.meshRecords * MeshRecSize) % U64Mod
        materialsOffset == (primitivesOffset + t.primRecords * PrimRecSize) % U64Mod
        texturesOffset == (materialsOffset + t.materialRecords * MatRecSize) % U64Mod
        nodesOffset == (texturesOffset + t.textureRecords * TexRecSize) % U64Mod
        npiOffset == (nodesOffset + t.nodeRecords * NodeRecSize) % U64Mod
        nciOffset == (npiOffset + t.nodePrimitiveIndices * IndexSize) % U64Mod
        stringTableOffset == (nciOffset + t.nodeChildIndices * IndexSize) % U64Mod
        blobOffset == (stringTableOffset + t.strings) % U64Mod
        cursor == (blobOffset + t.blob) % U64Mod
    IN  [magic |-> SMODEL_MAGIC,
         versionMajor |-> 2,
         versionMinor |-> 1,
         meshCount |-> t.meshRecords % U32Mod,
         primitiveCount |-> t.primRecords % U32Mod,
         materialCount |-> t.materialRecords % U32Mod,
         textureCount |-> t.textureRecords % U32Mod,
         nodeCount |-> t.nodeRecords % U32Mod,
         nodePrimitiveIndexCount |-> t.nodePrimitiveIndices % U32Mod,
         nodeChildIndicesCount |-> t.nodeChildIndices % U32Mod,
         meshesOffset |-> meshesOffset,
         primitivesOffset |-> primitivesOffset,
         materialsOffset |-> materialsOffset,
         texturesOffset |-> texturesOffset,
         nodesOffset |-> nodesOffset,
         nodePrimitiveIndicesOffset |-> npiOffset,
         nodeChildIndicesOffset |-> nciOffset % U32Mod,
         stringTableOffset |-> stringTableOffset,
         stringTableSize |-> t.strings % U32Mod,
         blobOffset |-> blobOffset,
         blobSize |-> t.blob % U32Mod,
         fileSizeBytes |-> cursor % U32Mod]

\* The sections in the order they are written, with their byte counts
sectionsWritten(t) ==
    << [section |-> "header", bytes |-> HeaderSize],
       [section |-> "meshes", bytes |-> t.meshRecords * MeshRecSize],
       [section |-> "primitives", bytes |-> t.primRecords * PrimRecSize],
       [section |-> "materials", bytes |-> t.materialRecords * MatRecSize],
       [section |-> "textures", bytes |-> t.textureRecords * TexRecSize],
       [section |-> "nodes", bytes |-> t.nodeRecords * NodeRecSize],
       [section |-> "nodePrimitiveIndices", bytes |-> t.nodePrimitiveIndices * IndexSize],
       [section |-> "nodeChildIndices", bytes |-> t.nodeChildIndices * IndexSize],
       [section |-> "stringTable", bytes |-> t.strings],
       [section |-> "blob", bytes |-> t.blob] >>

\* The output stream after the first k writes: each section with the
\* position at which it was written
RECURSIVE writeOutput(_, _)
writeOutput(secs, k) ==
    IF k = 0 THEN << >>
    ELSE LET before == writeOutput(secs, k - 1)
             at == IF k = 1 THEN 0 ELSE before[k - 1].at + before[k - 1].bytes
         IN  Append(before, [section |-> secs[k].section, at |-> at, bytes |-> secs[k].bytes])

\* The loader's gates on a file of fileBytes bytes with header h: the header
\* fits, is compatible, fileSizeBytes agrees, and the string table, the blob
\* and the record tables lie inside the file
gatesPass(h, fileBytes) ==
    /\ ~(fileBytes = 0)
    /\ ~(fileBytes < HeaderSize)
    /\ isHeaderCompatible(h)
    /\ ~fileSizeBytesMismatch(h, fileBytes)
    /\ isRangeInsideFile(h.stringTableOffset, h.stringTableSize, fileBytes)
    /\ isRangeInsideFile(h.blobOffset, h.blobSize, fileBytes)
    /\ tableRangeValid(h.meshesOffset, h.meshCount, MeshRecSize, fileBytes)
    /\ tableRangeValid(h.primitivesOffset, h.primitiveCount, PrimRecSize, fileBytes)
    /\ tableRangeValid(h.materialsOffset, h.materialCount, MatRecSize, fileBytes)
    /\ tableRangeValid(h.texturesOffset, h.textureCount, TexRecSize, fileBytes)
    /\ (h.nodeCount > 0 =>
          tableRangeValid(h.nodesOffset, h.nodeCount, NodeRecSize, fileBytes))
    /\ (h.nodePrimitiveIndexCount > 0 =>
          isRangeInsideFile(h.nodePrimitiveIndicesOffset,
                            tableBytes(h.nodePrimitiveIndexCount, IndexSize), fileBytes))

CookFrame == UNCHANGED <<earlierVars, verifyVars, meshVars, renderVars>>

\* (void)EmitNode(scene->mRootNode, U32_MAX)
EmitNodes ==
    /\ cooked = NotCooked
    /\ LET st0 == [nodeRecords |-> << >>, nodePrimitiveIndices |-> << >>,
                   nodeChildIndices |-> << >>, strings |-> strings, added |-> added]
           r == EmitNode(scene, st0, 0, U32_MAX)
       IN  /\ cooked' = [done |-> TRUE, written |-> << >>,
                         nodeRecords |-> r.st.nodeRecords,
                         nodePrimitiveIndices |-> r.st.nodePrimitiveIndices,
                         nodeChildIndices |-> r.st.nodeChildIndices,
                         primRecords |-> scene.tables.primRecords]
           /\ strings' = r.st.strings
           /\ added' = r.st.added
           /\ call' = [op |-> "EmitNode", index |-> r.index]
    /\ UNCHANGED scene
    /\ CookFrame

\* The header is built and the file is written
WriteFile ==
    /\ cooked # NotCooked
    /\ cooked.written = << >>
    /\ LET t == scene.tables @@
                [nodeRecords |-> Len(cooked.nodeRecords),
                 nodePrimitiveIndices |-> Len(cooked.nodePrimitiveIndices),
                 nodeChildIndices |-> Len(cooked.nodeChildIndices),
                 strings |-> Len(strings)]
           secs == sectionsWritten(t)
       IN  /\ cooked' = [header |-> buildHeader(t),
                         written |-> writeOutput(secs, Len(secs))] @@ cooked
           /\ call' = [op |-> "write"]
    /\ UNCHANGED <<scene, tableVars>>
    /\ CookFrame

CookInit ==
    /\ EarlierIdle
    /\ VerifyIdle
    /\ MeshIdle
    /\ RenderIdle
    /\ TableIdle
    /\ call = NoCall
    /\ scene \in Scenes
    /\ cooked = NotCooked

CookNext ==
    \/ EmitNodes
    \/ WriteFile

SpecCook == CookInit /\ [][CookNext]_vars

\* The number of bytes written to the output file
bytesWritten == cooked.written[Len(cooked.written)].at + cooked.written[Len(cooked.written)].bytes

\* The position at which a section was written
writtenAt(section) ==
    LET k == CHOOSE j \in 1..Len(cooked.written) : cooked.written[j].section = section
    IN  cooked.written[k].at

\* C26: once the cooker has written the file, every table offset of the
\* header equals the byte position at which that section was written, the
\* sections follow each other without gap or overlap in write order,
\* fileSizeBytes equals the number of bytes written, and a file with at
\* least one mesh passes the loader's header, size and table-range gates and
\* shows the cooked mesh, primitive, material and node counts.
C26_HeaderDescribesFile ==
    (cooked # NotCooked /\ cooked.written # << >>) =>
        LET h == cooked.header
            W == cooked.written
        IN  /\ h.meshesOffset = writtenAt("meshes")
            /\ h.primitivesOffset = writtenAt("primitives")
            /\ h.materialsOffset = writtenAt("materials")
            /\ h.texturesOffset = writtenAt("textures")
            /\ h.nodesOffset = writtenAt("nodes")
            /\ h.nodePrimitiveIndicesOffset = writtenAt("nodePrimitiveIndices")
            /\ h.nodeChildIndicesOffset = writtenAt("nodeChildIndices")
            /\ h.stringTableOffset = writtenAt("stringTable")
            /\ h.blobOffset = writtenAt("blob")
            /\ W[1].at = 0
            /\ \A k \in 1..(Len(W) - 1) : W[k + 1].at = W[k].at + W[k].bytes
            /\ h.fileSizeBytes = bytesWritten
            /\ scene.tables.meshRecords >= 1 =>
                  /\ gatesPass(h, bytesWritten)
                  /\ h.meshCount = scene.tables.meshRecords
                  /\ h.primitiveCount = scene.tables.primRecords
                  /\ h.materialCount = scene.tables.materialRecords
                  /\ h.nodeCount = scene.mNumNodes

\* The end-to-end scenario: one mesh, one material, no texture, one root node
\* are cooked into a file that passes the gates and shows the counts
C26_SmallFileLoads ==
    /\ cooked # NotCooked
    /\ cooked.written # << >>
    /\ scene.mNumNodes = 1
    /\ scene.tables.textureRecords = 0
    /\ cooked.header.fileSizeBytes = bytesWritten
    /\ gatesPass(cooked.header, bytesWritten)
    /\ cooked.header.nodeCount = 1
    /\ cooked.header.materialCount = 1

\* The emitted node tables, as a node graph
emittedGraph ==
    [hdr |-> [nodeCount |-> Len(cooked.nodeRecords)],
     nodes |-> cooked.nodeRecords,
     nodeChildIndices |-> cooked.nodeChildIndices]

\* The positions of nodeChildIndices owned by node i
SlicePositions(i) ==
    LET nr == cooked.nodeRecords[i + 1]
    IN  IF nr.childCount = 0 THEN {}
        ELSE nr.firstChildIndex..(nr.firstChildIndex + nr.childCount - 1)

\* C27: after EmitNode has run on a scene tree, node 0 is the only root;
\* every node with children owns a slice of nodeChildIndices inside the
\* table, the slices of different nodes are disjoint and together cover the
\* table; every entry of node i's slice is a node whose parentIndex is i and
\* none is the UINT32_MAX placeholder; every node is reachable from node 0;
\* and every primitive range lies inside nodePrimitiveIndices, whose values
\* are below the primitive count.
C27_EmitNodeInvariants ==
    cooked # NotCooked =>
        LET N == cooked.nodeRecords
            nc == cooked.nodeChildIndices
            np == cooked.nodePrimitiveIndices
            ids == 0..(Len(N) - 1)
        IN  /\ Len(N) = scene.mNumNodes
            /\ N[1].parentIndex = U32_MAX
            /\ \A i \in ids \ {0} : N[i + 1].parentIndex # U32_MAX
            /\ \A i \in ids : SlicePositions(i) \subseteq 0..(Len(nc) - 1)
            /\ \A i, j \in ids : i # j => SlicePositions(i) \cap SlicePositions(j) = {}
            /\ UNION { SlicePositions(i) : i \in ids } = 0..(Len(nc) - 1)
            /\ \A i \in ids : \A k \in SlicePositions(i) :
                  /\ nc[k + 1] # U32_MAX
                  /\ nc[k + 1] < Len(N)
                  /\ N[nc[k + 1] + 1].parentIndex = i
            /\ ReachableFrom(emittedGraph, 0) = ids
            /\ \A i \in ids :
                  N[i + 1].firstPrimitiveIndex + N[i + 1].primitiveCount <= Len(np)
            /\ \A k \in 1..Len(np) : np[k] >= 0 /\ np[k] < cooked.primRecords

\* A root with two children whose first child has a child of its own was
\* emitted: the grandchild is emitted before the second child, and the
\* root's slice stays contiguous
C27_Witness ==
    /\ cooked # NotCooked
    /\ Len(cooked.nodeRecords) = 4
    /\ cooked.nodeChildIndices = <<1, 3, 2>>
    /\ cooked.nodeRecords[1].childCount = 2
    /\ cooked.nodeRecords[2].firstChildIndex = 2
    /\ cooked.nodePrimitiveIndices # << >>

-----------------------------------------------------------------------------
\* RenderSystem::update (Sample/systems/RenderSystem.h)
\*
\* A store is [present, signature, hasRenderModel, hasPosition, rows]: present
\* is FALSE for a null entry of mgr.stores(); rows holds, per row, the row
\* mask, the RenderModel handle and the Position.  A world matrix is
\* modelled by the position it translates to.  A frame is the stores the
\* manager holds at an update and the handles the asset manager resolves.

\* Component IDs of "RenderModel", "Position", "Disabled", "Dead", and of a
\* component the system does not name
RenderModelId == 0

PositionId == 1

DisabledId == 2

DeadId == 3

OtherId == WordBits + 1

\* required() and excluded() of the system
required == fromIds(<<RenderModelId, PositionId>>)

excluded == fromIds(<<DisabledId, DeadId>>)

ModelHandles == { [id |-> 1, generation |-> 0], [id |-> 2, generation |-> 0],
                  [id |-> 1, generation |-> 1] }

Row(ids, h, pos) == [mask |-> fromIds(ids), handle |-> h, pos |-> pos]

Store(ids, rm, ps, rows) ==
    [present |-> TRUE, signature |-> fromIds(ids), hasRenderModel |-> rm,
     hasPosition |-> ps, rows |-> rows]

NullStore == [present |-> FALSE]

\* Renderable rows of two models, and a row disabled at row level
RenderableStore ==
    Store(<<RenderModelId, PositionId>>, TRUE, TRUE,
          << Row(<<RenderModelId, PositionId>>, [id |-> 1, generation |-> 0], 10),
             Row(<<RenderModelId, PositionId, DisabledId>>, [id |-> 2, generation |-> 0], 20),
             Row(<<RenderModelId, PositionId>>, [id |-> 2, generation |-> 0], 30) >>)

\* One more component, in a second word; a handle with a reused id; a row
\* whose mask lacks a required component
WiderStore ==
    Store(<<RenderModelId, PositionId, OtherId>>, TRUE, TRUE,
          << Row(<<RenderModelId, PositionId, OtherId>>, [id |-> 1, generation |-> 1], 40),
             Row(<<PositionId, OtherId>>, [id |-> 1, generation |-> 0], 50) >>)

\* An excluded component in the signature
DeadStore ==
    Store(<<RenderModelId, PositionId, DeadId>>, TRUE, TRUE,
          << Row(<<RenderModelId, PositionId>>, [id |-> 1, generation |-> 0], 60) >>)

\* A required component missing from the signature
PositionOnlyStore ==
    Store(<<PositionId>>, FALSE, TRUE,
          << Row(<<RenderModelId, PositionId>>, [id |-> 1, generation |-> 0], 70) >>)

\* The signature matches but a column is missing
NoRenderModelColumnStore ==
    Store(<<RenderModelId, PositionId>>, FALSE, TRUE,
          << Row(<<RenderModelId, PositionId>>, [id |-> 2, generation |-> 0], 80) >>)

NoPositionColumnStore ==
    Store(<<RenderModelId, PositionId>>, TRUE, FALSE,
          << Row(<<RenderModelId, PositionId>>, [id |-> 2, generation |-> 0], 90) >>)

Frames ==
    [stores : { << >>,
                <<RenderableStore>>,
                <<RenderableStore, RenderableStore>>,
                <<NullStore, WiderStore>>,
                <<WiderStore, DeadStore, RenderableStore>>,
                <<PositionOnlyStore, NoRenderModelColumnStore, NoPositionColumnStore>> },
     resolvable : { ModelHandles, { [id |-> 2, generation |-> 0] } }]

\* (generation << 32) | id in uint64_t
keyFromHandle(h) == (h.generation * U32Mod + h.id) % U64Mod

\* m_assets->getModel(handle) is non-null
getModel(resolvable, handle) == handle \in resolvable

\* The store-level checks without the two capability checks
storePassesSignatureOnly(store) ==
    IF ~store.present THEN FALSE
    ELSE IF ~containsAll(store.signature, required) THEN FALSE
    ELSE IF ~containsNone(store.signature, excluded) THEN FALSE
    ELSE TRUE

\* The store-level checks: TRUE when the rows of the store are visited
storePasses(store) ==
    IF ~store.present THEN FALSE
    ELSE IF ~containsAll(store.signature, required) THEN FALSE
    ELSE IF ~containsNone(store.signature, excluded) THEN FALSE
    ELSE IF ~store.hasRenderModel THEN FALSE
    ELSE IF ~store.hasPosition THEN FALSE
    ELSE TRUE

\* The checks evaluated on a store, in order, up to the first that fails
storeChecks(store) ==
    IF ~store.present THEN <<"ptr">>
    ELSE IF ~containsAll(store.signature, required) THEN <<"ptr", "containsAll">>
    ELSE IF ~containsNone(store.signature, excluded)
    THEN <<"ptr", "containsAll", "containsNone">>
    ELSE IF ~store.hasRenderModel
    THEN <<"ptr", "containsAll", "containsNone", "hasRenderModel">>
    ELSE <<"ptr", "containsAll", "containsNone", "hasRenderModel", "hasPosition">>

\* The rows of the stores from store si on, in iteration order, as [si, row]
\* (rows are 0-based)
RECURSIVE visitedRows(_, _)
visitedRows(stores, si) ==
    IF si > Len(stores) THEN << >>
    ELSE (IF storePasses(stores[si])
          THEN [r \in 1..Len(stores[si].rows) |-> [si |-> si, row |-> r - 1]]
          ELSE << >>) \o visitedRows(stores, si + 1)

rowAt(stores, v) == stores[v.si].rows[v.row + 1]

\* The row-level checks
rowMatches(frame, v) == matches(rowAt(frame.stores, v).mask, required, excluded)

rowSelected(frame, v) ==
    IF ~rowMatches(frame, v) THEN FALSE
    ELSE IF ~getModel(frame.resolvable, rowAt(frame.stores, v).handle) THEN FALSE
    ELSE TRUE

\* The rows that contribute an instance, in iteration order
selectedRows(frame) ==
    SelectSeq(visitedRows(frame.stores, 1), LAMBDA v : rowSelected(frame, v))

\* instancesByModel after the loop over the stores
instancesOf(frame) ==
    LET sel == selectedRows(frame)
        keys == { keyFromHandle(rowAt(frame.stores, sel[k]).handle) : k \in 1..Len(sel) }
    IN  [key \in keys |->
           LET mine == SelectSeq(sel, LAMBDA v :
                                 keyFromHandle(rowAt(frame.stores, v).handle) = key)
           IN  [k \in 1..Len(mine) |-> rowAt(frame.stores, mine[k]).pos]]

\* handleByKey after the loop over the stores
handlesOf(frame) ==
    LET sel == selectedRows(frame)
    IN  [key \in DOMAIN instancesOf(frame) |->
           LET k == CHOOSE j \in 1..Len(sel) :
                      /\ keyFromHandle(rowAt(frame.stores, sel[j]).handle) = key
                      /\ \A l \in (j + 1)..Len(sel) :
                            keyFromHandle(rowAt(frame.stores, sel[l]).handle) # key
           IN  rowAt(frame.stores, sel[k]).handle]

\* The column elements read: masks[row] for every visited row,
\* renderModels[row] once the row mask matched, positions[row] once the
\* asset resolved
columnReads(frame) ==
    LET vis == visitedRows(frame.stores, 1)
        V == { vis[k] : k \in 1..Len(vis) }
    IN  { [si |-> v.si, row |-> v.row, column |-> "rowMasks"] : v \in V }
        \cup
        { [si |-> v.si, row |-> v.row, column |-> "renderModels"] :
            v \in { w \in V : rowMatches(frame, w) } }
        \cup
        { [si |-> v.si, row |-> v.row, column |-> "positions"] :
            v \in { w \in V : rowSelected(frame, w) } }

\* The third loop left out: passes stay as they are
leaveMissing(passes, inst) == passes

\* The third loop: passes whose key has no instances this frame are disabled
disableMissing(passes, inst) ==
    [key \in DOMAIN passes |->
       IF key \notin DOMAIN inst THEN [passes[key] EXCEPT !.enabled = FALSE]
       ELSE passes[key]]

\* The second loop: a pass is created for a key without one, and the pass
\* of every key with instances gets the camera, is enabled and gets the
\* instances
createAndUpdate(passes, inst, handles) ==
    [key \in DOMAIN passes \cup DOMAIN inst |->
       IF key \in DOMAIN inst
       THEN [model |-> IF key \in DOMAIN passes THEN passes[key].model ELSE handles[key],
             enabled |-> TRUE,
             instances |-> inst[key]]
       ELSE passes[key]]

\* The orders in which the keys of K can be met by the loop over the
\* unordered map
Orders(K) == { q \in [1..Cardinality(K) -> K] : Range(q) = K }

RenderFrame == UNCHANGED <<earlierVars, verifyVars, meshVars, cookVars, tableVars, call>>

SetAssetManager ==
    /\ m_assets' = TRUE
    /\ UNCHANGED <<m_renderer, m_camera, m_passes, registered, lastUpdate>>
    /\ RenderFrame

SetRenderer ==
    /\ m_renderer' = TRUE
    /\ UNCHANGED <<m_assets, m_camera, m_passes, registered, lastUpdate>>
    /\ RenderFrame

SetCamera ==
    /\ m_camera' = TRUE
    /\ UNCHANGED <<m_assets, m_renderer, m_passes, registered, lastUpdate>>
    /\ RenderFrame

Update ==
    /\ \E frame \in Frames :
          IF ~m_assets \/ ~m_renderer \/ ~m_camera
          THEN /\ lastUpdate' = [done |-> TRUE, ran |-> FALSE, frame |-> frame]
               /\ UNCHANGED <<m_passes, registered>>
          ELSE LET inst == instancesOf(frame)
                   created == DOMAIN inst \ DOMAIN m_passes
               IN  /\ m_passes' =
                         disableMissing(createAndUpdate(m_passes, inst, handlesOf(frame)), inst)
                   /\ \E order \in Orders(created) : registered' = registered \o order
                   /\ lastUpdate' =
                         [done |-> TRUE, ran |-> TRUE, frame |-> frame,
                          checks |-> [si \in 1..Len(frame.stores) |->
                                        storeChecks(frame.stores[si])],
                          reads |-> columnReads(frame),
                          writes |-> {},
                          instancesByModel |-> inst,
                          passesBefore |-> DOMAIN m_passes,
                          enabledBefore |-> { k \in DOMAIN m_passes : m_passes[k].enabled }]
    /\ UNCHANGED <<m_assets, m_renderer, m_camera>>
    /\ RenderFrame

RenderInit ==
    /\ EarlierIdle
    /\ VerifyIdle
    /\ MeshIdle
    /\ CookIdle
    /\ TableIdle
    /\ call = NoCall
    /\ m_assets \in BOOLEAN
    /\ m_renderer = FALSE
    /\ m_camera = FALSE
    /\ m_passes = EmptyMap
    /\ registered = << >>
    /\ lastUpdate = NoUpdate

RenderNext ==
    \/ SetAssetManager
    \/ SetRenderer
    \/ SetCamera
    \/ Update

SpecRender == RenderInit /\ [][RenderNext]_vars

\* The store at position si of the frame passes the archetype-level and the
\* capability checks, stated on component sets
StoreQualifies(frame, si) ==
    LET st == frame.stores[si]
    IN  /\ st.present
        /\ {RenderModelId, PositionId} \subseteq IdsOf(st.signature)
        /\ IdsOf(st.signature) \cap {DisabledId, DeadId} = {}
        /\ st.hasRenderModel
        /\ st.hasPosition

\* Row r (0-based) of that store passes the row-level checks as well
RowQualifies(frame, si, r) ==
    /\ StoreQualifies(frame, si)
    /\ LET row == frame.stores[si].rows[r + 1]
       IN  /\ {RenderModelId, PositionId} \subseteq IdsOf(row.mask)
           /\ IdsOf(row.mask) \cap {DisabledId, DeadId} = {}
           /\ row.handle \in frame.resolvable

AllRows(frame) ==
    UNION { { <<si, r>> : r \in 0..(Len(frame.stores[si].rows) - 1) } :
            si \in { i \in 1..Len(frame.stores) : frame.stores[i].present } }

CheckSequence == <<"ptr", "containsAll", "containsNone", "hasRenderModel", "hasPosition">>

\* C29: in an update that ran, the draw instances are exactly the rows whose
\* store passed the signature and capability checks, whose own mask matches
\* and whose handle resolves; the store checks are evaluated in the order
\* signature (all required, none excluded), hasRenderModel, hasPosition, each
\* only after the ones before it passed; a row's RenderModel is read only
\* after its mask matched and its Position only after its asset resolved;
\* rows after a skipped row are still processed; no column element is
\* written; and no column is indexed for a store that failed a store-level
\* check.
C29_RowFilterOrder ==
    (lastUpdate.done /\ lastUpdate.ran) =>
        LET f == lastUpdate.frame
            inst == lastUpdate.instancesByModel
            keyOf(sr) == keyFromHandle(f.stores[sr[1]].rows[sr[2] + 1].handle)
            posOf(sr) == f.stores[sr[1]].rows[sr[2] + 1].pos
            Q == { sr \in AllRows(f) : RowQualifies(f, sr[1], sr[2]) }
        IN  /\ DOMAIN inst = { keyOf(sr) : sr \in Q }
            /\ \A key \in DOMAIN inst :
                  /\ Len(inst[key]) = Cardinality({ sr \in Q : keyOf(sr) = key })
                  /\ \A sr \in Q : keyOf(sr) = key => posOf(sr) \in Range(inst[key])
                  /\ \A j \in 1..Len(inst[key]) :
                        \E sr \in Q : keyOf(sr) = key /\ posOf(sr) = inst[key][j]
            /\ \A si \in 1..Len(f.stores) :
                  LET c == lastUpdate.checks[si]
                  IN  /\ c = SubSeq(CheckSequence, 1, Len(c))
                      /\ StoreQualifies(f, si) => c = CheckSequence
            /\ \A rd \in lastUpdate.reads :
                  /\ StoreQualifies(f, rd.si)
                  /\ rd.column = "renderModels" =>
                        LET row == f.stores[rd.si].rows[rd.row + 1]
                        IN  /\ {RenderModelId, PositionId} \subseteq IdsOf(row.mask)
                            /\ IdsOf(row.mask) \cap {DisabledId, DeadId} = {}
                  /\ rd.column = "positions" => RowQualifies(f, rd.si, rd.row)
            /\ lastUpdate.writes = {}

\* An update ran over a store with an excluded signature and stores with
\* rows that are skipped at row level and rows after them that are drawn
C29_Witness ==
    /\ lastUpdate.done
    /\ lastUpdate.ran
    /\ lastUpdate.frame.stores = <<WiderStore, DeadStore, RenderableStore>>
    /\ lastUpdate.frame.resolvable = { [id |-> 2, generation |-> 0] }
    /\ DOMAIN lastUpdate.instancesByModel = { keyFromHandle([id |-> 2, generation |-> 0]) }
    /\ lastUpdate.instancesByModel[keyFromHandle([id |-> 2, generation |-> 0])] = <<30>>
    /\ lastUpdate.checks[2] = <<"ptr", "containsAll", "containsNone">>

\* C30: over any sequence of updates, every model key has at most one pass,
\* registered with the renderer exactly once; passes are never removed and
\* the registrations made stay as they are; and after an update that ran
\* (assets, renderer and camera set) a pass is enabled iff its key had an
\* instance in that update, and an enabled pass holds that update's
\* instances of its model.
C30_OnePassPerModel ==
    /\ [](/\ Range(registered) = DOMAIN m_passes
          /\ \A i, j \in 1..Len(registered) : i # j => registered[i] # registered[j]
          /\ \A key \in DOMAIN m_passes : keyFromHandle(m_passes[key].model) = key
          /\ (lastUpdate.done /\ lastUpdate.ran) =>
                /\ DOMAIN lastUpdate.instancesByModel \subseteq DOMAIN m_passes
                /\ \A key \in DOMAIN m_passes :
                      /\ m_passes[key].enabled <=> key \in DOMAIN lastUpdate.instancesByModel
                      /\ m_passes[key].enabled =>
                            m_passes[key].instances = lastUpdate.instancesByModel[key])
    /\ [][/\ DOMAIN m_passes \subseteq DOMAIN m_passes'
          /\ Len(registered) <= Len(registered')
          /\ SubSeq(registered', 1, Len(registered)) = registered]_vars

\* A pass that was disabled before the update is enabled again by it, with
\* no pass registered a second time, while another pass is disabled
C30_Witness ==
    /\ lastUpdate.done
    /\ lastUpdate.ran
    /\ \E key \in lastUpdate.passesBefore \ lastUpdate.enabledBefore :
          m_passes[key].enabled
    /\ \E key \in lastUpdate.enabledBefore : ~m_passes[key].enabled
    /\ Len(registered) = Cardinality(DOMAIN m_passes)

=============================================================================
